---- MODULE Spec2Model ----
(***************************************************************************)
(* The productivity-tracking backend as a state machine: the entity store  *)
(* (users, teams, projects, time logs, app-usage samples, activity         *)
(* metrics), the role-scoped querysets and permission classes of the       *)
(* viewsets, and one action per request handler.  A request is handled in  *)
(* one step that leaves its outcome in `response`; ReturnResponse hands    *)
(* the response back and makes the server ready for the next request.      *)
(***************************************************************************)
EXTENDS Integers, FiniteSets, Sequences, TLC

VARIABLES User, Team, Project, TimeLog, AppUsage, ActivityMetric, response, writes

vars == <<User, Team, Project, TimeLog, AppUsage, ActivityMetric, response, writes>>
store == <<User, Team, Project, TimeLog, AppUsage, ActivityMetric>>

(***************************************************************************)
(* Bounds of the model.                                                    *)
(***************************************************************************)
\* employees the seed routine creates (the source creates three)
NumEmployees == 1
\* projects the seed routine creates (the source creates two)
NumProjects == 1
\* rows beyond the seeded ones that requests may create, per table
MaxNewRows == 1
\* store-changing requests handled after the seed
MaxWrites == 1

(***************************************************************************)
(* Values.                                                                 *)
(***************************************************************************)
\* a null foreign key
None == 0
\* the caller of a request that carries no valid token
AnonymousUser == 0

GroupNames == {"Employees", "TeamHeads", "ProjectManagers"}
Roles == {"admin", "team_head", "project_manager", "employee"}
SAFE_METHODS == {"GET", "HEAD", "OPTIONS"}

\* ids of the seeded users
AdminId == 1
TeamHeadId == 2
ProjectManagerId == 3
SeedUserIds == 1..(3 + NumEmployees)
UserIds == 1..(3 + NumEmployees + MaxNewRows)
TeamIds == 1..(1 + MaxNewRows)
ProjectIds == 1..(NumProjects + MaxNewRows)
SeedLogIds == 1..(3 + NumEmployees)
LogIds == 1..(3 + NumEmployees + MaxNewRows)

Callers == UserIds \cup {AnonymousUser}

Max(S) == CHOOSE x \in S : \A y \in S : y <= x
NextId(table) == IF DOMAIN table = {} THEN 1 ELSE Max(DOMAIN table) + 1
\* the table without the rows in `gone`
Without(table, gone) == [k \in (DOMAIN table) \ gone |-> table[k]]
\* the table with row pk set to row
With(table, pk, row) == [k \in (DOMAIN table) \cup {pk} |-> IF k = pk THEN row ELSE table[k]]

\* A datetime is a number of seconds counted from the first midnight of the calendar
\* (January 2024); datetime.now().date() is its last day.
Today == 31
SecondsPerDay == 86400
SecondsPerHour == 3600
\* nine o'clock of a day, when the sample logs start
at_nine(day) == (day - 1) * SecondsPerDay + 9 * SecondsPerHour
\* lengths of logs and of app usage: half an hour, two hours, ten hours
HalfHour == 1800
TwoHours == 7200
TenHours == 36000
\* estimated_hours a project is given: a negative one, none, the 40 of the tests
EstimatedHoursInputs == {0 - 5, 0, 40}
\* estimated_hours of the seeded project
SeedEstimatedHours == 80

(***************************************************************************)
(* users/models.py                                                         *)
(***************************************************************************)
is_authenticated(c) == c # AnonymousUser /\ c \in DOMAIN User

\* the role with the group tests in the order ProjectViewSet.get_queryset makes them
role_PMFirst(u) ==
  IF User[u].is_superuser THEN "admin"
  ELSE IF "ProjectManagers" \in User[u].groups THEN "project_manager"
  ELSE IF "TeamHeads" \in User[u].groups THEN "team_head"
  ELSE "employee"

\* User.role
role(u) ==
  IF User[u].is_superuser THEN "admin"
  ELSE IF "TeamHeads" \in User[u].groups THEN "team_head"
  ELSE IF "ProjectManagers" \in User[u].groups THEN "project_manager"
  ELSE "employee"

\* create_default_groups: a new user joins Employees
NewUser(su) == [is_superuser |-> su, is_staff |-> su, groups |-> {"Employees"}]

(***************************************************************************)
(* users/seriallizers.py                                                   *)
(***************************************************************************)
\* the field UserSerializer declares: role = CharField(source='role', read_only=True)
UserSerializer_role == [field_name |-> "role", source |-> "role"]
\* Field.bind, run when a serializer builds its fields: it asserts that a declared
\* field does not name itself as its source
bind(field) == field.source # field.field_name
\* whether UserSerializer's fields can be built; reading .data and is_valid() both
\* build them first
UserSerializer_fields == bind(UserSerializer_role)

(***************************************************************************)
(* Querysets.  A queryset is its rows, whether .distinct() was applied,    *)
(* and whether building it raised.                                         *)
(***************************************************************************)
QS(rows) == [ok |-> TRUE, rows |-> rows, distinct |-> FALSE]
Raised == [ok |-> FALSE, rows |-> {}, distinct |-> FALSE]
distinct(q) == [q EXCEPT !.distinct = TRUE]
\* QuerySet.__or__: Query.combine refuses a distinct and a non-distinct operand
Or(a, b) ==
  IF ~a.ok \/ ~b.ok \/ a.distinct # b.distinct THEN Raised
  ELSE [ok |-> TRUE, rows |-> a.rows \cup b.rows, distinct |-> a.distinct]

\* the lookups a model's filter() resolves: its fields and reverse relations
AppUsageLookups == {"id", "user", "app_name", "duration_seconds", "timestamp"}
ActivityMetricLookups == {"id", "user", "metric_type", "value", "timestamp"}

\* User.objects.filter(teams__head=user)
team_member_ids(c) == {u \in DOMAIN User : \E t \in DOMAIN Team : Team[t].head = c /\ u \in Team[t].members}
\* user.managed_projects
managed_project_ids(c) == {p \in DOMAIN Project : Project[p].manager = c}


(***************************************************************************)
(* Permission classes.  A check ends "ok", "denied" or "error" (the check  *)
(* itself raised).                                                         *)
(***************************************************************************)
IsAuthenticated(c) == is_authenticated(c)
\* IsAdminUser tests is_staff
IsAdminUser(c) == is_authenticated(c) /\ User[c].is_staff
\* ModelBackend.has_perm: an active superuser holds every permission; no code of the
\* repository grants a model permission to a user or a group
has_perms(c) == User[c].is_superuser
\* DjangoModelPermissions.has_permission, which reads the view's queryset
DjangoObjectPermissions(c, qs) ==
  IF ~is_authenticated(c) THEN "denied"
  ELSE IF ~qs.ok THEN "error"
  ELSE IF has_perms(c) THEN "ok" ELSE "denied"

\* the status of a request a permission class refused
HTTP_401_UNAUTHORIZED == 401
permission_denied(c) == IF is_authenticated(c) THEN 403 ELSE HTTP_401_UNAUTHORIZED

WriteActions == {"create", "update", "partial_update", "destroy"}

(***************************************************************************)
(* users/views.py                                                          *)
(***************************************************************************)
\* get_permissions with create left to AllowAny (public registration)
UserViewSet_get_permissions_PublicRegistration(c, action) ==
  IF action = "create" THEN "ok"
  ELSE IF action \in {"update", "partial_update", "destroy"} THEN (IF IsAdminUser(c) THEN "ok" ELSE "denied")
  ELSE (IF IsAuthenticated(c) THEN "ok" ELSE "denied")

\* UserViewSet.get_permissions: every action it does not name, the actions declared
\* with @action included, ends in the else branch
UserViewSet_get_permissions(c, action) ==
  IF action = "create" THEN (IF IsAdminUser(c) THEN "ok" ELSE "denied")
  ELSE IF action \in {"list", "retrieve"} THEN (IF IsAuthenticated(c) THEN "ok" ELSE "denied")
  ELSE IF action \in {"update", "partial_update", "destroy"} THEN (IF IsAdminUser(c) THEN "ok" ELSE "denied")
  ELSE (IF IsAuthenticated(c) THEN "ok" ELSE "denied")

UserViewSet_get_queryset(c) ==
  IF User[c].is_superuser THEN QS(DOMAIN User)
  ELSE QS({u \in DOMAIN User : u = c})

(***************************************************************************)
(* projects/views.py                                                       *)
(***************************************************************************)
TeamViewSet_get_queryset(c) ==
  IF User[c].is_superuser THEN QS(DOMAIN Team)
  ELSE IF "TeamHeads" \in User[c].groups THEN
    Or(QS({t \in DOMAIN Team : Team[t].head = c}),
       distinct(QS({t \in DOMAIN Team : c \in Team[t].members})))
  ELSE IF "ProjectManagers" \in User[c].groups THEN
    distinct(QS({t \in DOMAIN Team : \E p \in managed_project_ids(c) : Project[p].team = t}))
  ELSE distinct(QS({t \in DOMAIN Team : c \in Team[t].members}))

TeamViewSet_get_permissions(c, action) ==
  IF action \in WriteActions THEN
    (IF IsAdminUser(c) THEN "ok"
     ELSE DjangoObjectPermissions(c, IF is_authenticated(c) THEN TeamViewSet_get_queryset(c) ELSE Raised))
  ELSE (IF IsAuthenticated(c) THEN "ok" ELSE "denied")

ProjectViewSet_get_queryset(c) ==
  IF User[c].is_superuser THEN QS(DOMAIN Project)
  ELSE IF "ProjectManagers" \in User[c].groups THEN
    QS({p \in DOMAIN Project : Project[p].manager = c})
  ELSE IF "TeamHeads" \in User[c].groups THEN
    distinct(QS({p \in DOMAIN Project :
                   Project[p].team # None /\ Team[Project[p].team].head = c}))
  ELSE distinct(QS({p \in DOMAIN Project : \E l \in DOMAIN TimeLog :
                      TimeLog[l].project = p /\ TimeLog[l].user = c}))

ProjectViewSet_get_permissions(c, action) ==
  IF action \in WriteActions THEN
    (IF IsAdminUser(c) THEN "ok"
     ELSE DjangoObjectPermissions(c, IF is_authenticated(c) THEN ProjectViewSet_get_queryset(c) ELSE Raised))
  ELSE (IF IsAuthenticated(c) THEN "ok" ELSE "denied")

(***************************************************************************)
(* timetracking/views.py                                                   *)
(***************************************************************************)
\* has_object_permission without the split between safe and unsafe methods
has_object_permission_ReadWrite(c, method, obj_user, has_project, obj_project) ==
  \/ User[c].is_superuser
  \/ obj_user = c
  \/ /\ "TeamHeads" \in User[c].groups
     /\ \E t \in DOMAIN Team : obj_user \in Team[t].members /\ Team[t].head = c
  \/ /\ "ProjectManagers" \in User[c].groups
     /\ has_project /\ obj_project # None /\ Project[obj_project].manager = c

\* IsOwnerOrAdminOrTeamHeadOrProjectManager.has_object_permission
has_object_permission(c, method, obj_user, has_project, obj_project) ==
  IF method \in SAFE_METHODS THEN
    \/ User[c].is_superuser
    \/ obj_user = c
    \/ /\ "TeamHeads" \in User[c].groups
       /\ \E t \in DOMAIN Team : obj_user \in Team[t].members /\ Team[t].head = c
    \/ /\ "ProjectManagers" \in User[c].groups
       /\ has_project /\ obj_project # None /\ Project[obj_project].manager = c
  ELSE obj_user = c \/ User[c].is_superuser

\* permission_classes = [IsAuthenticated, IsOwnerOrAdminOrTeamHeadOrProjectManager];
\* the second has no has_permission of its own
LogViewSet_permission_classes(c) == IF IsAuthenticated(c) THEN "ok" ELSE "denied"

\* get_queryset with every non-admin caller treated as an employee
TimeLogViewSet_get_queryset_Own(c) ==
  IF User[c].is_superuser THEN QS(DOMAIN TimeLog)
  ELSE QS({l \in DOMAIN TimeLog : TimeLog[l].user = c})

TimeLogViewSet_get_queryset(c) ==
  IF User[c].is_superuser THEN QS(DOMAIN TimeLog)
  ELSE IF "TeamHeads" \in User[c].groups THEN
    QS({l \in DOMAIN TimeLog : TimeLog[l].user \in team_member_ids(c)})
  ELSE IF "ProjectManagers" \in User[c].groups THEN
    QS({l \in DOMAIN TimeLog : TimeLog[l].project \in managed_project_ids(c)})
  ELSE QS({l \in DOMAIN TimeLog : TimeLog[l].user = c})

\* filter(timelogs__project__id__in=...): the lookup must resolve on the model
AppUsageViewSet_get_queryset(c) ==
  IF User[c].is_superuser THEN QS(DOMAIN AppUsage)
  ELSE IF "TeamHeads" \in User[c].groups THEN
    QS({a \in DOMAIN AppUsage : AppUsage[a].user \in team_member_ids(c)})
  ELSE IF "ProjectManagers" \in User[c].groups THEN
    (IF "timelogs" \in AppUsageLookups THEN distinct(QS({})) ELSE Raised)
  ELSE QS({a \in DOMAIN AppUsage : AppUsage[a].user = c})

ActivityMetricViewSet_get_queryset(c) ==
  IF User[c].is_superuser THEN QS(DOMAIN ActivityMetric)
  ELSE IF "TeamHeads" \in User[c].groups THEN
    QS({a \in DOMAIN ActivityMetric : ActivityMetric[a].user \in team_member_ids(c)})
  ELSE IF "ProjectManagers" \in User[c].groups THEN
    (IF "timelogs" \in ActivityMetricLookups THEN distinct(QS({})) ELSE Raised)
  ELSE QS({a \in DOMAIN ActivityMetric : ActivityMetric[a].user = c})


(***************************************************************************)
(* users/management/commands/setup_initial_data.py: the store after the    *)
(* seed routine.  Every user it creates joins Employees (the post_save     *)
(* signal), so the team's members and the users that get sample rows are   *)
(* all the seeded users.                                                   *)
(***************************************************************************)
\* the seed's random.randint draws, cut to one value each
SeedDurations == {1800}
SeedValues == {500}

SeedUser(u) ==
  IF u = AdminId THEN NewUser(TRUE)
  ELSE IF u = TeamHeadId THEN [NewUser(FALSE) EXCEPT !.groups = @ \cup {"TeamHeads"}]
  ELSE IF u = ProjectManagerId THEN [NewUser(FALSE) EXCEPT !.groups = @ \cup {"ProjectManagers"}]
  ELSE NewUser(FALSE)

\* User.groups is many-to-many and no code keeps a user in one role group: the
\* memberships the operator has given a seeded head or manager on top of the seed's
OperatorGroups == {{}, {"TeamHeads", "ProjectManagers"}}

Init ==
  /\ \E o \in {TeamHeadId, ProjectManagerId}, g \in OperatorGroups :
       User = [u \in SeedUserIds |->
                 IF u = o THEN [SeedUser(u) EXCEPT !.groups = @ \cup g] ELSE SeedUser(u)]
  /\ Team = [t \in {1} |-> [head |-> TeamHeadId, members |-> SeedUserIds]]
  /\ Project = [p \in 1..NumProjects |->
                  [manager |-> ProjectManagerId, team |-> 1, estimated_hours |-> SeedEstimatedHours]]
  /\ \E pr \in [SeedLogIds -> 1..NumProjects] :
       TimeLog = [l \in SeedLogIds |->
                    [user |-> l, project |-> pr[l], start_time |-> at_nine(Today),
                     end_time |-> at_nine(Today) + TwoHours]]
  /\ \E d \in [SeedLogIds -> SeedDurations] :
       AppUsage = [a \in SeedLogIds |-> [user |-> a, duration_seconds |-> d[a]]]
  /\ \E v \in [SeedLogIds -> SeedValues] :
       ActivityMetric = [m \in SeedLogIds |-> [user |-> m, value |-> v[m]]]
  /\ response = [op |-> <<"idle", "idle">>, user |-> 0, pk |-> 0, status |-> 0, data |-> {}]
  /\ writes = 0

(***************************************************************************)
(* Requests.  Each handler runs as one step from the idle server.          *)
(***************************************************************************)
Idle == [op |-> <<"idle", "idle">>, user |-> 0, pk |-> 0, status |-> 0, data |-> {}]
Resp(op, c, pk, status, data) == [op |-> op, user |-> c, pk |-> pk, status |-> status, data |-> data]

\* a request that leaves the store as it is
Answer(op, c, pk, status, data) ==
  /\ response' = Resp(op, c, pk, status, data)
  /\ UNCHANGED <<User, Team, Project, TimeLog, AppUsage, ActivityMetric, writes>>

\* get_object: the queryset, get_object_or_404, then the object permission
get_object(qs, pk, allowed) ==
  IF ~qs.ok THEN 500
  ELSE IF pk \notin qs.rows THEN 404
  ELSE IF ~allowed THEN 403
  ELSE 200

ReturnResponse ==
  /\ response.op # Idle.op
  /\ response' = Idle
  /\ UNCHANGED <<User, Team, Project, TimeLog, AppUsage, ActivityMetric, writes>>

(***************************************************************************)
(* CustomAuthToken                                                         *)
(***************************************************************************)
\* (mutant) the role of the response with the group tests in the other order
CustomAuthToken_role_PMFirst(user) ==
  IF User[user].is_superuser THEN "admin"
  ELSE IF "ProjectManagers" \in User[user].groups THEN "project_manager"
  ELSE IF "TeamHeads" \in User[user].groups THEN "team_head"
  ELSE "employee"

\* the role post() works out for the response
CustomAuthToken_role(user) ==
  IF User[user].is_superuser THEN "admin"
  ELSE IF "TeamHeads" \in User[user].groups THEN "team_head"
  ELSE IF "ProjectManagers" \in User[user].groups THEN "project_manager"
  ELSE "employee"

\* post: the credentials name a user and carry the right password or not; the
\* request itself comes without identity. The token table is left out.
CustomAuthToken_post(username, password_ok) ==
  /\ response = Idle
  /\ IF username \in DOMAIN User /\ password_ok
     THEN Answer(<<"auth", "post">>, AnonymousUser, username, 200, {CustomAuthToken_role(username)})
     ELSE Answer(<<"auth", "post">>, AnonymousUser, username, 400, {})

AuthRequests == \E username \in UserIds, password_ok \in BOOLEAN : CustomAuthToken_post(username, password_ok)

(***************************************************************************)
(* UserViewSet                                                             *)
(***************************************************************************)
UserViewSet_list(c) ==
  /\ response = Idle
  /\ LET perm == UserViewSet_get_permissions(c, "list") IN
     IF perm # "ok" THEN Answer(<<"user", "list">>, c, None, permission_denied(c), {})
     ELSE LET qs == UserViewSet_get_queryset(c) IN
          IF qs.rows # {} /\ ~UserSerializer_fields THEN Answer(<<"user", "list">>, c, None, 500, {})
          ELSE Answer(<<"user", "list">>, c, None, 200, qs.rows)

UserViewSet_retrieve(c, pk) ==
  /\ response = Idle
  /\ LET perm == UserViewSet_get_permissions(c, "retrieve") IN
     IF perm # "ok" THEN Answer(<<"user", "retrieve">>, c, pk, permission_denied(c), {})
     ELSE LET st == get_object(UserViewSet_get_queryset(c), pk, TRUE) IN
          IF st = 200 /\ ~UserSerializer_fields THEN Answer(<<"user", "retrieve">>, c, pk, 500, {})
          ELSE Answer(<<"user", "retrieve">>, c, pk, st, IF st = 200 THEN {pk} ELSE {})

UserViewSet_me(c) ==
  /\ response = Idle
  /\ LET perm == UserViewSet_get_permissions(c, "me") IN
     IF perm # "ok" THEN Answer(<<"user", "me">>, c, None, permission_denied(c), {})
     ELSE IF ~UserSerializer_fields THEN Answer(<<"user", "me">>, c, None, 500, {})
     ELSE Answer(<<"user", "me">>, c, None, 200, {c})

\* create: is_valid() builds the serializer's fields before anything is stored.
\* perform_create: serializer.save() stores the user (the signal adds Employees, then
\* a groups value of the request replaces the memberships); the password lookup that
\* follows finds no such key in validated_data, UserSerializer having no password
\* field.  Whether the stored row survives the failed request is the database's
\* ATOMIC_REQUESTS setting.
UserViewSet_create(c) ==
  /\ response = Idle
  /\ LET perm == UserViewSet_get_permissions(c, "create") IN
     IF perm # "ok" THEN Answer(<<"user", "create">>, c, None, permission_denied(c), {})
     ELSE IF ~UserSerializer_fields THEN Answer(<<"user", "create">>, c, None, 500, {})
     ELSE \E groups_in \in SUBSET GroupNames, atomic \in BOOLEAN :
          IF atomic THEN Answer(<<"user", "create">>, c, None, 500, {})
          ELSE
          /\ writes < MaxWrites
          /\ NextId(User) \in UserIds
          /\ User' = With(User, NextId(User), [NewUser(FALSE) EXCEPT !.groups = groups_in])
          /\ response' = Resp(<<"user", "create">>, c, None, 500, {})
          /\ writes' = writes + 1
          /\ UNCHANGED <<Team, Project, TimeLog, AppUsage, ActivityMetric>>

\* update: get_object, then is_valid(), which builds the serializer's fields, then
\* perform_update: groups is the writable field that matters to the access policy
UserViewSet_update(c, pk, action) ==
  /\ response = Idle
  /\ LET perm == UserViewSet_get_permissions(c, action) IN
     IF perm # "ok" THEN Answer(<<"user", action>>, c, pk, permission_denied(c), {})
     ELSE LET st == get_object(UserViewSet_get_queryset(c), pk, TRUE) IN
          IF st # 200 THEN Answer(<<"user", action>>, c, pk, st, {})
          ELSE IF ~UserSerializer_fields THEN Answer(<<"user", action>>, c, pk, 500, {})
          ELSE \E groups_in \in SUBSET GroupNames :
               /\ writes < MaxWrites
               /\ User' = [User EXCEPT ![pk].groups = groups_in]
               /\ response' = Resp(<<"user", action>>, c, pk, 200, {pk})
               /\ writes' = writes + 1
               /\ UNCHANGED <<Team, Project, TimeLog, AppUsage, ActivityMetric>>

\* on_delete of the models: CASCADE for the rows a user owns, SET_NULL for
\* Team.head and Project.manager; the membership rows go with the user
\* (mutant) the rows of a deleted user left in the table
on_delete_DO_NOTHING(table, pk) == table

\* user = ForeignKey(User, on_delete=models.CASCADE): the table without the rows of user pk
on_delete_CASCADE(table, pk) == Without(table, {k \in DOMAIN table : table[k].user = pk})

UserViewSet_destroy(c, pk) ==
  /\ response = Idle
  /\ LET perm == UserViewSet_get_permissions(c, "destroy") IN
     IF perm # "ok" THEN Answer(<<"user", "destroy">>, c, pk, permission_denied(c), {})
     ELSE LET st == get_object(UserViewSet_get_queryset(c), pk, TRUE) IN
          IF st # 200 THEN Answer(<<"user", "destroy">>, c, pk, st, {})
          ELSE /\ writes < MaxWrites
               /\ User' = Without(User, {pk})
               /\ Team' = [t \in DOMAIN Team |->
                             [head |-> IF Team[t].head = pk THEN None ELSE Team[t].head,
                              members |-> Team[t].members \ {pk}]]
               /\ Project' = [p \in DOMAIN Project |->
                                [Project[p] EXCEPT !.manager = IF @ = pk THEN None ELSE @]]
               /\ TimeLog' = on_delete_CASCADE(TimeLog, pk)
               /\ AppUsage' = on_delete_CASCADE(AppUsage, pk)
               /\ ActivityMetric' = on_delete_CASCADE(ActivityMetric, pk)
               /\ response' = Resp(<<"user", "destroy">>, c, pk, 204, {})
               /\ writes' = writes + 1

RoleInputs == Roles \cup {"manager"}

\* set_role: groups.clear(), then the flags and the one group of the new role
set_role_user(u, new_role) ==
  IF new_role = "admin" THEN [is_superuser |-> TRUE, is_staff |-> TRUE, groups |-> {}]
  ELSE [is_superuser |-> FALSE, is_staff |-> FALSE,
        groups |-> IF new_role = "team_head" THEN {"TeamHeads"}
                   ELSE IF new_role = "project_manager" THEN {"ProjectManagers"}
                   ELSE IF new_role = "employee" THEN {"Employees"}
                   ELSE {}]

\* the user is saved before the response is serialized; whether the saved row
\* survives a request that then fails is the database's ATOMIC_REQUESTS setting
set_role(c, pk, new_role) ==
  /\ response = Idle
  /\ LET perm == UserViewSet_get_permissions(c, "set_role") IN
     IF perm # "ok" THEN Answer(<<"user", "set_role">>, c, pk, permission_denied(c), {})
     ELSE LET st == get_object(UserViewSet_get_queryset(c), pk, TRUE) IN
          IF st # 200 THEN Answer(<<"user", "set_role">>, c, pk, st, {})
          ELSE IF new_role \notin Roles THEN Answer(<<"user", "set_role">>, c, pk, 400, {})
               ELSE
               \E atomic \in BOOLEAN :
               IF ~UserSerializer_fields /\ atomic THEN Answer(<<"user", "set_role">>, c, pk, 500, {})
               ELSE
               /\ writes < MaxWrites
               /\ User' = [User EXCEPT ![pk] = set_role_user(User[pk], new_role)]
               /\ response' = IF UserSerializer_fields THEN Resp(<<"user", "set_role">>, c, pk, 200, {pk})
                              ELSE Resp(<<"user", "set_role">>, c, pk, 500, {})
               /\ writes' = writes + 1
               /\ UNCHANGED <<Team, Project, TimeLog, AppUsage, ActivityMetric>>

UserViewSet_set_role(c, pk) == \E new_role \in RoleInputs : set_role(c, pk, new_role)

UserRequests ==
  \E c \in Callers :
    \/ UserViewSet_list(c)
    \/ UserViewSet_me(c)
    \/ \E pk \in UserIds : UserViewSet_retrieve(c, pk)
    \/ UserViewSet_create(c)
    \/ \E pk \in UserIds, a \in {"update", "partial_update"} : UserViewSet_update(c, pk, a)
    \/ \E pk \in UserIds : UserViewSet_destroy(c, pk)
    \/ \E pk \in UserIds : UserViewSet_set_role(c, pk)

(***************************************************************************)
(* TeamViewSet                                                             *)
(***************************************************************************)
\* IsAdminUser | DjangoObjectPermissions on the object fetched
admin_or_model_object_permission(c) == IsAdminUser(c) \/ has_perms(c)

TeamViewSet_list(c) ==
  /\ response = Idle
  /\ LET perm == TeamViewSet_get_permissions(c, "list") IN
     IF perm # "ok" THEN Answer(<<"team", "list">>, c, None, permission_denied(c), {})
     ELSE LET qs == TeamViewSet_get_queryset(c) IN
          Answer(<<"team", "list">>, c, None, IF qs.ok THEN 200 ELSE 500, qs.rows)

TeamViewSet_retrieve(c, pk) ==
  /\ response = Idle
  /\ LET perm == TeamViewSet_get_permissions(c, "retrieve") IN
     IF perm # "ok" THEN Answer(<<"team", "retrieve">>, c, pk, permission_denied(c), {})
     ELSE LET st == get_object(TeamViewSet_get_queryset(c), pk, TRUE) IN
          Answer(<<"team", "retrieve">>, c, pk, st, IF st = 200 THEN {pk} ELSE {})

\* the members a request names: any set of at most two user ids
MemberInputs == {m \in SUBSET UserIds : Cardinality(m) <= 2}

\* the serializer's related fields accept only existing users
TeamSerializer_is_valid(head, members) ==
  /\ head = None \/ head \in DOMAIN User
  /\ members \subseteq DOMAIN User

TeamViewSet_create(c) ==
  /\ response = Idle
  /\ LET perm == TeamViewSet_get_permissions(c, "create") IN
     IF perm = "error" THEN Answer(<<"team", "create">>, c, None, 500, {})
     ELSE IF perm # "ok" THEN Answer(<<"team", "create">>, c, None, permission_denied(c), {})
     ELSE \E head \in UserIds \cup {None}, members \in MemberInputs :
          IF ~TeamSerializer_is_valid(head, members) THEN Answer(<<"team", "create">>, c, None, 400, {})
          ELSE
          /\ writes < MaxWrites
          /\ NextId(Team) \in TeamIds
          /\ Team' = With(Team, NextId(Team), [head |-> head, members |-> members])
          /\ response' = Resp(<<"team", "create">>, c, NextId(Team), 201, {NextId(Team)})
          /\ writes' = writes + 1
          /\ UNCHANGED <<User, Project, TimeLog, AppUsage, ActivityMetric>>

TeamViewSet_update(c, pk, action) ==
  /\ response = Idle
  /\ LET perm == TeamViewSet_get_permissions(c, action) IN
     IF perm = "error" THEN Answer(<<"team", action>>, c, pk, 500, {})
     ELSE IF perm # "ok" THEN Answer(<<"team", action>>, c, pk, permission_denied(c), {})
     ELSE LET st == get_object(TeamViewSet_get_queryset(c), pk, admin_or_model_object_permission(c)) IN
          IF st # 200 THEN Answer(<<"team", action>>, c, pk, st, {})
          ELSE \E head \in UserIds \cup {None}, members \in MemberInputs :
               IF ~TeamSerializer_is_valid(head, members) THEN Answer(<<"team", action>>, c, pk, 400, {})
               ELSE
               /\ writes < MaxWrites
               /\ Team' = [Team EXCEPT ![pk] = [head |-> head, members |-> members]]
               /\ response' = Resp(<<"team", action>>, c, pk, 200, {pk})
               /\ writes' = writes + 1
               /\ UNCHANGED <<User, Project, TimeLog, AppUsage, ActivityMetric>>

\* Project.team is SET_NULL
TeamViewSet_destroy(c, pk) ==
  /\ response = Idle
  /\ LET perm == TeamViewSet_get_permissions(c, "destroy") IN
     IF perm = "error" THEN Answer(<<"team", "destroy">>, c, pk, 500, {})
     ELSE IF perm # "ok" THEN Answer(<<"team", "destroy">>, c, pk, permission_denied(c), {})
     ELSE LET st == get_object(TeamViewSet_get_queryset(c), pk, admin_or_model_object_permission(c)) IN
          IF st # 200 THEN Answer(<<"team", "destroy">>, c, pk, st, {})
          ELSE /\ writes < MaxWrites
               /\ Team' = Without(Team, {pk})
               /\ Project' = [p \in DOMAIN Project |->
                                [Project[p] EXCEPT !.team = IF @ = pk THEN None ELSE @]]
               /\ response' = Resp(<<"team", "destroy">>, c, pk, 204, {})
               /\ writes' = writes + 1
               /\ UNCHANGED <<User, TimeLog, AppUsage, ActivityMetric>>

TeamRequests ==
  \E c \in Callers :
    \/ TeamViewSet_list(c)
    \/ \E pk \in TeamIds : TeamViewSet_retrieve(c, pk)
    \/ TeamViewSet_create(c)
    \/ \E pk \in TeamIds, a \in {"update", "partial_update"} : TeamViewSet_update(c, pk, a)
    \/ \E pk \in TeamIds : TeamViewSet_destroy(c, pk)

(***************************************************************************)
(* ProjectViewSet                                                          *)
(***************************************************************************)
ProjectViewSet_list(c) ==
  /\ response = Idle
  /\ LET perm == ProjectViewSet_get_permissions(c, "list") IN
     IF perm # "ok" THEN Answer(<<"project", "list">>, c, None, permission_denied(c), {})
     ELSE LET qs == ProjectViewSet_get_queryset(c) IN
          Answer(<<"project", "list">>, c, None, IF qs.ok THEN 200 ELSE 500, qs.rows)

ProjectViewSet_retrieve(c, pk) ==
  /\ response = Idle
  /\ LET perm == ProjectViewSet_get_permissions(c, "retrieve") IN
     IF perm # "ok" THEN Answer(<<"project", "retrieve">>, c, pk, permission_denied(c), {})
     ELSE LET st == get_object(ProjectViewSet_get_queryset(c), pk, TRUE) IN
          Answer(<<"project", "retrieve">>, c, pk, st, IF st = 200 THEN {pk} ELSE {})

ProjectViewSet_progress_report(c, pk) ==
  /\ response = Idle
  /\ LET perm == ProjectViewSet_get_permissions(c, "progress_report") IN
     IF perm # "ok" THEN Answer(<<"project", "progress_report">>, c, pk, permission_denied(c), {})
     ELSE LET st == get_object(ProjectViewSet_get_queryset(c), pk, TRUE) IN
          Answer(<<"project", "progress_report">>, c, pk, st, IF st = 200 THEN {pk} ELSE {})

ProjectSerializer_is_valid(manager, team) ==
  /\ manager = None \/ manager \in DOMAIN User
  /\ team = None \/ team \in DOMAIN Team

ProjectViewSet_create(c) ==
  /\ response = Idle
  /\ LET perm == ProjectViewSet_get_permissions(c, "create") IN
     IF perm = "error" THEN Answer(<<"project", "create">>, c, None, 500, {})
     ELSE IF perm # "ok" THEN Answer(<<"project", "create">>, c, None, permission_denied(c), {})
     ELSE \E manager \in UserIds \cup {None}, team \in TeamIds \cup {None},
             estimated_hours \in EstimatedHoursInputs :
          IF ~ProjectSerializer_is_valid(manager, team) THEN Answer(<<"project", "create">>, c, None, 400, {})
          ELSE
          /\ writes < MaxWrites
          /\ NextId(Project) \in ProjectIds
          /\ Project' = With(Project, NextId(Project),
                              [manager |-> manager, team |-> team, estimated_hours |-> estimated_hours])
          /\ response' = Resp(<<"project", "create">>, c, NextId(Project), 201, {NextId(Project)})
          /\ writes' = writes + 1
          /\ UNCHANGED <<User, Team, TimeLog, AppUsage, ActivityMetric>>

ProjectViewSet_update(c, pk, action) ==
  /\ response = Idle
  /\ LET perm == ProjectViewSet_get_permissions(c, action) IN
     IF perm = "error" THEN Answer(<<"project", action>>, c, pk, 500, {})
     ELSE IF perm # "ok" THEN Answer(<<"project", action>>, c, pk, permission_denied(c), {})
     ELSE LET st == get_object(ProjectViewSet_get_queryset(c), pk, admin_or_model_object_permission(c)) IN
          IF st # 200 THEN Answer(<<"project", action>>, c, pk, st, {})
          ELSE \E manager \in UserIds \cup {None}, team \in TeamIds \cup {None},
                  estimated_hours \in EstimatedHoursInputs :
               IF ~ProjectSerializer_is_valid(manager, team) THEN Answer(<<"project", action>>, c, pk, 400, {})
               ELSE
               /\ writes < MaxWrites
               /\ Project' = [Project EXCEPT ![pk] =
                                 [manager |-> manager, team |-> team, estimated_hours |-> estimated_hours]]
               /\ response' = Resp(<<"project", action>>, c, pk, 200, {pk})
               /\ writes' = writes + 1
               /\ UNCHANGED <<User, Team, TimeLog, AppUsage, ActivityMetric>>

\* TimeLog.project is SET_NULL
ProjectViewSet_destroy(c, pk) ==
  /\ response = Idle
  /\ LET perm == ProjectViewSet_get_permissions(c, "destroy") IN
     IF perm = "error" THEN Answer(<<"project", "destroy">>, c, pk, 500, {})
     ELSE IF perm # "ok" THEN Answer(<<"project", "destroy">>, c, pk, permission_denied(c), {})
     ELSE LET st == get_object(ProjectViewSet_get_queryset(c), pk, admin_or_model_object_permission(c)) IN
          IF st # 200 THEN Answer(<<"project", "destroy">>, c, pk, st, {})
          ELSE /\ writes < MaxWrites
               /\ Project' = Without(Project, {pk})
               /\ TimeLog' = [l \in DOMAIN TimeLog |->
                                [TimeLog[l] EXCEPT !.project = IF @ = pk THEN None ELSE @]]
               /\ response' = Resp(<<"project", "destroy">>, c, pk, 204, {})
               /\ writes' = writes + 1
               /\ UNCHANGED <<User, Team, AppUsage, ActivityMetric>>

ProjectRequests ==
  \E c \in Callers :
    \/ ProjectViewSet_list(c)
    \/ \E pk \in ProjectIds : ProjectViewSet_retrieve(c, pk)
    \/ \E pk \in ProjectIds : ProjectViewSet_progress_report(c, pk)
    \/ ProjectViewSet_create(c)
    \/ \E pk \in ProjectIds, a \in {"update", "partial_update"} : ProjectViewSet_update(c, pk, a)
    \/ \E pk \in ProjectIds : ProjectViewSet_destroy(c, pk)

\* the values a request gives the writable fields
DurationInputs == {0 - 60, 1800, 3600}
\* start_time and end_time of a request: a log left open, one closed after half an
\* hour, one whose end is half an hour before its start
TimeInputs ==
  {<<at_nine(Today), None>>, <<at_nine(Today), at_nine(Today) + HalfHour>>,
   <<at_nine(Today), at_nine(Today) - HalfHour>>}
ValueInputs == {500, 2000}

(***************************************************************************)
(* TimeLogViewSet                                                            *)
(***************************************************************************)
\* get_object of the detail routes: the row must be in the caller's queryset before
\* the object permission is asked
TimeLogViewSet_get_object(c, pk, method) ==
  LET qs == TimeLogViewSet_get_queryset(c) IN
  IF ~qs.ok THEN 500
  ELSE IF pk \notin qs.rows THEN 404
  ELSE IF ~has_object_permission(c, method, TimeLog[pk].user, TRUE, TimeLog[pk].project) THEN 403
  ELSE 200

TimeLogViewSet_list(c) ==
  /\ response = Idle
  /\ LET perm == LogViewSet_permission_classes(c) IN
     IF perm # "ok" THEN Answer(<<"timelog", "list">>, c, None, permission_denied(c), {})
     ELSE LET qs == TimeLogViewSet_get_queryset(c) IN
          Answer(<<"timelog", "list">>, c, None, IF qs.ok THEN 200 ELSE 500, qs.rows)

TimeLogViewSet_retrieve(c, pk) ==
  /\ response = Idle
  /\ LET perm == LogViewSet_permission_classes(c) IN
     IF perm # "ok" THEN Answer(<<"timelog", "retrieve">>, c, pk, permission_denied(c), {})
     ELSE LET st == TimeLogViewSet_get_object(c, pk, "GET") IN
          Answer(<<"timelog", "retrieve">>, c, pk, st, IF st = 200 THEN {pk} ELSE {})

\* the user values a request body may carry
BodyUserInputs == UserIds \cup {None}

\* (mutant) a create that stores the user of the request body when there is one
perform_create_BodyUser(c, body_user) == IF body_user # None THEN body_user ELSE c

\* perform_create: serializer.save(user=self.request.user); user is a read-only
\* field, so the body's user never reaches the validated data
perform_create(c, body_user) == c

\* perform_create: serializer.save(user=self.request.user)
TimeLogViewSet_create(c) ==
  /\ response = Idle
  /\ LET perm == LogViewSet_permission_classes(c) IN
     IF perm # "ok" THEN Answer(<<"timelog", "create">>, c, None, permission_denied(c), {})
     ELSE \E project \in ProjectIds \cup {None}, times \in TimeInputs, body_user \in BodyUserInputs :
          IF ~(project = None \/ project \in DOMAIN Project) THEN Answer(<<"timelog", "create">>, c, None, 400, {})
          ELSE
          /\ writes < MaxWrites
          /\ NextId(TimeLog) \in LogIds
          /\ TimeLog' = With(TimeLog, NextId(TimeLog),
                              [user |-> perform_create(c, body_user), project |-> project,
                               start_time |-> times[1], end_time |-> times[2]])
          /\ response' = Resp(<<"timelog", "create">>, c, NextId(TimeLog), 201, {NextId(TimeLog)})
          /\ writes' = writes + 1
          /\ UNCHANGED <<User, Team, Project, AppUsage, ActivityMetric>>

\* user is a read-only field of the serializer
TimeLogViewSet_update(c, pk, action) ==
  /\ response = Idle
  /\ LET perm == LogViewSet_permission_classes(c) IN
     IF perm # "ok" THEN Answer(<<"timelog", action>>, c, pk, permission_denied(c), {})
     ELSE LET st == TimeLogViewSet_get_object(c, pk, IF action = "update" THEN "PUT" ELSE "PATCH") IN
          IF st # 200 THEN Answer(<<"timelog", action>>, c, pk, st, {})
          ELSE \E project \in ProjectIds \cup {None}, times \in TimeInputs :
               IF ~(project = None \/ project \in DOMAIN Project) THEN Answer(<<"timelog", action>>, c, pk, 400, {})
               ELSE
               /\ writes < MaxWrites
               /\ TimeLog' = [TimeLog EXCEPT ![pk].project = project,
                                             ![pk].start_time = times[1], ![pk].end_time = times[2]]
               /\ response' = Resp(<<"timelog", action>>, c, pk, 200, {pk})
               /\ writes' = writes + 1
               /\ UNCHANGED <<User, Team, Project, AppUsage, ActivityMetric>>

TimeLogViewSet_destroy(c, pk) ==
  /\ response = Idle
  /\ LET perm == LogViewSet_permission_classes(c) IN
     IF perm # "ok" THEN Answer(<<"timelog", "destroy">>, c, pk, permission_denied(c), {})
     ELSE LET st == TimeLogViewSet_get_object(c, pk, "DELETE") IN
          IF st # 200 THEN Answer(<<"timelog", "destroy">>, c, pk, st, {})
          ELSE /\ writes < MaxWrites
               /\ TimeLog' = Without(TimeLog, {pk})
               /\ response' = Resp(<<"timelog", "destroy">>, c, pk, 204, {})
               /\ writes' = writes + 1
               /\ UNCHANGED <<User, Team, Project, AppUsage, ActivityMetric>>

\* daily_summary reads get_queryset().filter(user=user) and the caller's AppUsage rows
TimeLogViewSet_daily_summary(c) ==
  /\ response = Idle
  /\ LET perm == LogViewSet_permission_classes(c) IN
     IF perm # "ok" THEN Answer(<<"timelog", "daily_summary">>, c, None, permission_denied(c), {})
     ELSE LET qs == TimeLogViewSet_get_queryset(c) IN
          Answer(<<"timelog", "daily_summary">>, c, None, IF qs.ok THEN 200 ELSE 500,
                 {l \in qs.rows : TimeLog[l].user = c})

TimeLogRequests ==
  \E c \in Callers :
    \/ TimeLogViewSet_list(c)
    \/ \E pk \in LogIds : TimeLogViewSet_retrieve(c, pk)
    \/ TimeLogViewSet_create(c)
    \/ \E pk \in LogIds, a \in {"update", "partial_update"} : TimeLogViewSet_update(c, pk, a)
    \/ \E pk \in LogIds : TimeLogViewSet_destroy(c, pk)
    \/ TimeLogViewSet_daily_summary(c)

(***************************************************************************)
(* AppUsageViewSet                                                            *)
(***************************************************************************)
\* get_object of the detail routes: the row must be in the caller's queryset before
\* the object permission is asked
AppUsageViewSet_get_object(c, pk, method) ==
  LET qs == AppUsageViewSet_get_queryset(c) IN
  IF ~qs.ok THEN 500
  ELSE IF pk \notin qs.rows THEN 404
  ELSE IF ~has_object_permission(c, method, AppUsage[pk].user, FALSE, None) THEN 403
  ELSE 200

AppUsageViewSet_list(c) ==
  /\ response = Idle
  /\ LET perm == LogViewSet_permission_classes(c) IN
     IF perm # "ok" THEN Answer(<<"appusage", "list">>, c, None, permission_denied(c), {})
     ELSE LET qs == AppUsageViewSet_get_queryset(c) IN
          Answer(<<"appusage", "list">>, c, None, IF qs.ok THEN 200 ELSE 500, qs.rows)

AppUsageViewSet_retrieve(c, pk) ==
  /\ response = Idle
  /\ LET perm == LogViewSet_permission_classes(c) IN
     IF perm # "ok" THEN Answer(<<"appusage", "retrieve">>, c, pk, permission_denied(c), {})
     ELSE LET st == AppUsageViewSet_get_object(c, pk, "GET") IN
          Answer(<<"appusage", "retrieve">>, c, pk, st, IF st = 200 THEN {pk} ELSE {})

\* perform_create: serializer.save(user=self.request.user)
AppUsageViewSet_create(c) ==
  /\ response = Idle
  /\ LET perm == LogViewSet_permission_classes(c) IN
     IF perm # "ok" THEN Answer(<<"appusage", "create">>, c, None, permission_denied(c), {})
     ELSE \E duration_seconds \in DurationInputs, body_user \in BodyUserInputs :
          IF ~(TRUE) THEN Answer(<<"appusage", "create">>, c, None, 400, {})
          ELSE
          /\ writes < MaxWrites
          /\ NextId(AppUsage) \in LogIds
          /\ AppUsage' = With(AppUsage, NextId(AppUsage), [user |-> perform_create(c, body_user), duration_seconds |-> duration_seconds])
          /\ response' = Resp(<<"appusage", "create">>, c, NextId(AppUsage), 201, {NextId(AppUsage)})
          /\ writes' = writes + 1
          /\ UNCHANGED <<User, Team, Project, TimeLog, ActivityMetric>>

\* user is a read-only field of the serializer
AppUsageViewSet_update(c, pk, action) ==
  /\ response = Idle
  /\ LET perm == LogViewSet_permission_classes(c) IN
     IF perm # "ok" THEN Answer(<<"appusage", action>>, c, pk, permission_denied(c), {})
     ELSE LET st == AppUsageViewSet_get_object(c, pk, IF action = "update" THEN "PUT" ELSE "PATCH") IN
          IF st # 200 THEN Answer(<<"appusage", action>>, c, pk, st, {})
          ELSE \E duration_seconds \in DurationInputs :
               IF ~(TRUE) THEN Answer(<<"appusage", action>>, c, pk, 400, {})
               ELSE
               /\ writes < MaxWrites
               /\ AppUsage' = [AppUsage EXCEPT ![pk].duration_seconds = duration_seconds]
               /\ response' = Resp(<<"appusage", action>>, c, pk, 200, {pk})
               /\ writes' = writes + 1
               /\ UNCHANGED <<User, Team, Project, TimeLog, ActivityMetric>>

AppUsageViewSet_destroy(c, pk) ==
  /\ response = Idle
  /\ LET perm == LogViewSet_permission_classes(c) IN
     IF perm # "ok" THEN Answer(<<"appusage", "destroy">>, c, pk, permission_denied(c), {})
     ELSE LET st == AppUsageViewSet_get_object(c, pk, "DELETE") IN
          IF st # 200 THEN Answer(<<"appusage", "destroy">>, c, pk, st, {})
          ELSE /\ writes < MaxWrites
               /\ AppUsage' = Without(AppUsage, {pk})
               /\ response' = Resp(<<"appusage", "destroy">>, c, pk, 204, {})
               /\ writes' = writes + 1
               /\ UNCHANGED <<User, Team, Project, TimeLog, ActivityMetric>>

\* summary aggregates get_queryset()
AppUsageViewSet_summary(c) ==
  /\ response = Idle
  /\ LET perm == LogViewSet_permission_classes(c) IN
     IF perm # "ok" THEN Answer(<<"appusage", "summary">>, c, None, permission_denied(c), {})
     ELSE LET qs == AppUsageViewSet_get_queryset(c) IN
          Answer(<<"appusage", "summary">>, c, None, IF qs.ok THEN 200 ELSE 500, qs.rows)

AppUsageRequests ==
  \E c \in Callers :
    \/ AppUsageViewSet_list(c)
    \/ \E pk \in LogIds : AppUsageViewSet_retrieve(c, pk)
    \/ AppUsageViewSet_create(c)
    \/ \E pk \in LogIds, a \in {"update", "partial_update"} : AppUsageViewSet_update(c, pk, a)
    \/ \E pk \in LogIds : AppUsageViewSet_destroy(c, pk)
    \/ AppUsageViewSet_summary(c)

(***************************************************************************)
(* ActivityMetricViewSet                                                            *)
(***************************************************************************)
\* get_object of the detail routes: the row must be in the caller's queryset before
\* the object permission is asked
ActivityMetricViewSet_get_object(c, pk, method) ==
  LET qs == ActivityMetricViewSet_get_queryset(c) IN
  IF ~qs.ok THEN 500
  ELSE IF pk \notin qs.rows THEN 404
  ELSE IF ~has_object_permission(c, method, ActivityMetric[pk].user, FALSE, None) THEN 403
  ELSE 200

ActivityMetricViewSet_list(c) ==
  /\ response = Idle
  /\ LET perm == LogViewSet_permission_classes(c) IN
     IF perm # "ok" THEN Answer(<<"activitymetric", "list">>, c, None, permission_denied(c), {})
     ELSE LET qs == ActivityMetricViewSet_get_queryset(c) IN
          Answer(<<"activitymetric", "list">>, c, None, IF qs.ok THEN 200 ELSE 500, qs.rows)

ActivityMetricViewSet_retrieve(c, pk) ==
  /\ response = Idle
  /\ LET perm == LogViewSet_permission_classes(c) IN
     IF perm # "ok" THEN Answer(<<"activitymetric", "retrieve">>, c, pk, permission_denied(c), {})
     ELSE LET st == ActivityMetricViewSet_get_object(c, pk, "GET") IN
          Answer(<<"activitymetric", "retrieve">>, c, pk, st, IF st = 200 THEN {pk} ELSE {})

\* perform_create: serializer.save(user=self.request.user)
ActivityMetricViewSet_create(c) ==
  /\ response = Idle
  /\ LET perm == LogViewSet_permission_classes(c) IN
     IF perm # "ok" THEN Answer(<<"activitymetric", "create">>, c, None, permission_denied(c), {})
     ELSE \E value \in ValueInputs, body_user \in BodyUserInputs :
          IF ~(TRUE) THEN Answer(<<"activitymetric", "create">>, c, None, 400, {})
          ELSE
          /\ writes < MaxWrites
          /\ NextId(ActivityMetric) \in LogIds
          /\ ActivityMetric' = With(ActivityMetric, NextId(ActivityMetric), [user |-> perform_create(c, body_user), value |-> value])
          /\ response' = Resp(<<"activitymetric", "create">>, c, NextId(ActivityMetric), 201, {NextId(ActivityMetric)})
          /\ writes' = writes + 1
          /\ UNCHANGED <<User, Team, Project, TimeLog, AppUsage>>

\* user is a read-only field of the serializer
ActivityMetricViewSet_update(c, pk, action) ==
  /\ response = Idle
  /\ LET perm == LogViewSet_permission_classes(c) IN
     IF perm # "ok" THEN Answer(<<"activitymetric", action>>, c, pk, permission_denied(c), {})
     ELSE LET st == ActivityMetricViewSet_get_object(c, pk, IF action = "update" THEN "PUT" ELSE "PATCH") IN
          IF st # 200 THEN Answer(<<"activitymetric", action>>, c, pk, st, {})
          ELSE \E value \in ValueInputs :
               IF ~(TRUE) THEN Answer(<<"activitymetric", action>>, c, pk, 400, {})
               ELSE
               /\ writes < MaxWrites
               /\ ActivityMetric' = [ActivityMetric EXCEPT ![pk].value = value]
               /\ response' = Resp(<<"activitymetric", action>>, c, pk, 200, {pk})
               /\ writes' = writes + 1
               /\ UNCHANGED <<User, Team, Project, TimeLog, AppUsage>>

ActivityMetricViewSet_destroy(c, pk) ==
  /\ response = Idle
  /\ LET perm == LogViewSet_permission_classes(c) IN
     IF perm # "ok" THEN Answer(<<"activitymetric", "destroy">>, c, pk, permission_denied(c), {})
     ELSE LET st == ActivityMetricViewSet_get_object(c, pk, "DELETE") IN
          IF st # 200 THEN Answer(<<"activitymetric", "destroy">>, c, pk, st, {})
          ELSE /\ writes < MaxWrites
               /\ ActivityMetric' = Without(ActivityMetric, {pk})
               /\ response' = Resp(<<"activitymetric", "destroy">>, c, pk, 204, {})
               /\ writes' = writes + 1
               /\ UNCHANGED <<User, Team, Project, TimeLog, AppUsage>>


ActivityMetricRequests ==
  \E c \in Callers :
    \/ ActivityMetricViewSet_list(c)
    \/ \E pk \in LogIds : ActivityMetricViewSet_retrieve(c, pk)
    \/ ActivityMetricViewSet_create(c)
    \/ \E pk \in LogIds, a \in {"update", "partial_update"} : ActivityMetricViewSet_update(c, pk, a)
    \/ \E pk \in LogIds : ActivityMetricViewSet_destroy(c, pk)

Next ==
  \/ AuthRequests
  \/ UserRequests
  \/ TeamRequests
  \/ ProjectRequests
  \/ TimeLogRequests
  \/ AppUsageRequests
  \/ ActivityMetricRequests
  \/ ReturnResponse


(***************************************************************************)
(* Reports: progress_report, daily_summary and the app-usage summary over  *)
(* rows that carry their times.  A datetime is a number of seconds counted *)
(* from the first midnight of the calendar; a number of hours, and a       *)
(* percentage, is written in hundredths, the precision round(x, 2) keeps.  *)
(***************************************************************************)
\* the dates the calendar of the model holds, as '%Y-%m-%d' writes them
Calendar ==
  <<"2024-01-01", "2024-01-02", "2024-01-03", "2024-01-04", "2024-01-05", "2024-01-06",
    "2024-01-07", "2024-01-08", "2024-01-09", "2024-01-10", "2024-01-11", "2024-01-12",
    "2024-01-13", "2024-01-14", "2024-01-15", "2024-01-16", "2024-01-17", "2024-01-18",
    "2024-01-19", "2024-01-20", "2024-01-21", "2024-01-22", "2024-01-23", "2024-01-24",
    "2024-01-25", "2024-01-26", "2024-01-27", "2024-01-28", "2024-01-29", "2024-01-30",
    "2024-01-31">>

\* what an expression gives: a value, or the exception it raised
Value(v) == [ok |-> TRUE, value |-> v, exception |-> ""]
Raise(e) == [ok |-> FALSE, value |-> 0, exception |-> e]

\* date.strftime('%Y-%m-%d')
strftime(date) == Calendar[date]
\* datetime.strptime(s, '%Y-%m-%d').date(): the day the string names, or ValueError
strptime(s) ==
  IF \E d \in DOMAIN Calendar : Calendar[d] = s
  THEN Value(CHOOSE d \in DOMAIN Calendar : Calendar[d] = s)
  ELSE Raise("ValueError")
\* the __date lookup of a datetime
date(t) == (t \div SecondsPerDay) + 1

\* the nearest integer to n / d, a tie going to the even one (Python's round)
RoundHalfEven(n, d) ==
  LET nn == IF d < 0 THEN 0 - n ELSE n
      dd == IF d < 0 THEN 0 - d ELSE d
      q == nn \div dd
      r == nn % dd
  IN IF 2 * r < dd THEN q
     ELSE IF 2 * r > dd THEN q + 1
     ELSE IF q % 2 = 0 THEN q ELSE q + 1
\* round(n / d, 2), in hundredths; a zero divisor raises
round2(n, d) == IF d = 0 THEN Raise("ZeroDivisionError") ELSE Value(RoundHalfEven(100 * n, d))

RECURSIVE SumOf(_)
\* the sum of the values of a function with a finite domain
SumOf(f) ==
  IF DOMAIN f = {} THEN 0
  ELSE LET k == CHOOSE k \in DOMAIN f : TRUE
       IN f[k] + SumOf([j \in (DOMAIN f) \ {k} |-> f[j]])

\* Sum(F('end_time') - F('start_time')) over rows: a row with a null end_time has a
\* null difference, which SUM skips; over no counted row the sum is null (None)
Sum_duration(rows) ==
  LET closed == {l \in rows : TimeLog[l].end_time # None}
  IN IF closed = {} THEN None
     ELSE SumOf([l \in closed |-> TimeLog[l].end_time - TimeLog[l].start_time])

\* Sum('duration_seconds') over rows
Sum_duration_seconds(rows) == SumOf([a \in rows |-> AppUsage[a].duration_seconds])

(***************************************************************************)
(* ProjectViewSet.progress_report                                          *)
(***************************************************************************)
\* the seconds counted when every stored log is taken, whatever its project
total_time_spent_seconds_AllLogs(pk) ==
  LET total_duration == Sum_duration(DOMAIN TimeLog)
  IN IF total_duration # None THEN total_duration ELSE 0

\* project.time_logs.aggregate(total_duration=Sum(...)), None and a zero duration
\* both read as 0
total_time_spent_seconds(pk) ==
  LET total_duration == Sum_duration({l \in DOMAIN TimeLog : TimeLog[l].project = pk})
  IN IF total_duration # None THEN total_duration ELSE 0

\* the percentage computed without testing the estimate first
progress_percentage_Unguarded(seconds, estimated_hours) ==
  round2(100 * seconds, SecondsPerHour * estimated_hours)

\* round((total_time_spent_hours / estimated_hours) * 100, 2) if estimated_hours > 0
\* else 0
progress_percentage(seconds, estimated_hours) ==
  IF estimated_hours > 0 THEN round2(100 * seconds, SecondsPerHour * estimated_hours)
  ELSE Value(0)

\* the body of the response
progress_report_data(pk) ==
  [project_id |-> pk,
   estimated_hours |-> Project[pk].estimated_hours,
   total_time_spent_hours |-> round2(total_time_spent_seconds(pk), SecondsPerHour).value,
   progress_percentage |->
     progress_percentage(total_time_spent_seconds(pk), Project[pk].estimated_hours).value]

progress_report(c, pk) ==
  LET op == <<"project", "progress_report">>
      perm == ProjectViewSet_get_permissions(c, "progress_report")
  IN IF perm # "ok" THEN Answer(op, c, pk, permission_denied(c), {})
     ELSE LET st == get_object(ProjectViewSet_get_queryset(c), pk, TRUE) IN
          IF st # 200 THEN Answer(op, c, pk, st, {})
          ELSE IF ~progress_percentage(total_time_spent_seconds(pk), Project[pk].estimated_hours).ok
          THEN Answer(op, c, pk, 500, {})
          ELSE Answer(op, c, pk, 200, progress_report_data(pk))

(***************************************************************************)
(* The date range of a report request, and the database connection.        *)
(***************************************************************************)
\* a query parameter that is absent or empty is falsy
NoParam == ""
\* the start_date and end_date strings requests carry: none, one of the two, two days,
\* a start after the end, and dates no calendar holds
DateInputs ==
  {<<NoParam, NoParam>>, <<"2024-01-30", NoParam>>, <<"2024-01-30", "2024-01-31">>,
   <<"2024-01-31", "2024-01-30">>, <<"2024-02-30", "2024-01-31">>,
   <<"2024-01-30", "2024-13-01">>}

\* the range of a report: both parameters parsed when both are given, otherwise the
\* default_days days that end today
query_range(start_date_str, end_date_str, default_days) ==
  IF start_date_str # NoParam /\ end_date_str # NoParam THEN
    (IF ~strptime(start_date_str).ok THEN strptime(start_date_str)
     ELSE IF ~strptime(end_date_str).ok THEN strptime(end_date_str)
     ELSE Value([start_date |-> strptime(start_date_str).value,
                 end_date |-> strptime(end_date_str).value]))
  ELSE Value([start_date |-> Today - (default_days - 1), end_date |-> Today])

\* timedelta(days=6) back from today: the 7 days of the default daily summary
DailySummaryDays == 7
\* timedelta(days=29) back from today: the 30 days of the default app-usage summary
AppSummaryDays == 30

\* What the database and the ORM version make of the two aggregate divisions; the
\* settings and the requirements are not part of the repository.
\*   Sum('duration') / timedelta(hours=1): either the expression is rejected when the
\*     query is evaluated (no output type for a duration divided by a duration, or no
\*     such operator in the database), or the query gives a timedelta;
\*   Sum('duration_seconds') / 3600: an integer quotient where the database divides
\*     integers as integers, a fractional one elsewhere.
Connections ==
  [duration_division : {"rejected", "timedelta"}, integer_division : BOOLEAN]

\* Sum('duration_seconds') / 3600 over a group of rows, then round(x, 2), in hundredths
total_app_usage_hours(connection, rows) ==
  IF connection.integer_division
  THEN 100 * (Sum_duration_seconds(rows) \div SecondsPerHour)
  ELSE round2(Sum_duration_seconds(rows), SecondsPerHour).value

(***************************************************************************)
(* TimeLogViewSet.daily_summary                                            *)
(***************************************************************************)
\* random.randint(60, 100), cut to its two ends
ScoreInputs == {60, 100}
\* the days of one response whose score is drawn; the later days are given 60
MaxDrawnScores == 2
\* the scores one request may draw for n days
random_scores(n) ==
  {scores \in [1..n -> ScoreInputs] : \A i \in 1..n : i > MaxDrawnScores => scores[i] = 60}

\* self.get_queryset().filter(user=user).filter(start_time__date__range=[...])
daily_summary_queryset(c, range) ==
  {l \in TimeLogViewSet_get_queryset(c).rows :
     /\ TimeLog[l].user = c
     /\ date(TimeLog[l].start_time) \in range.start_date..range.end_date}

\* the item of daily_hours for a date: values('start_time__date') groups the rows, a
\* date without rows has no item
daily_hours(c, range, day) == {l \in daily_summary_queryset(c, range) : date(TimeLog[l].start_time) = day}

\* the item of daily_app_usage for a date
daily_app_usage(c, range, day) ==
  {a \in DOMAIN AppUsage : /\ AppUsage[a].user = c
                           /\ date(AppUsage[a].timestamp) \in range.start_date..range.end_date
                           /\ date(AppUsage[a].timestamp) = day}

\* round(working_hours, 2): 0.0 for a date without an item; an item holds a timedelta,
\* or None when all its logs are open, and round() takes neither
working_hours(c, range, day) ==
  IF daily_hours(c, range, day) = {} THEN Value(0) ELSE Raise("TypeError")

app_usage_hours(connection, c, range, day) ==
  IF daily_app_usage(c, range, day) = {} THEN 0
  ELSE total_app_usage_hours(connection, daily_app_usage(c, range, day))

\* the list of the response: one record per date of date_range, in order
daily_summary_results(connection, c, range, scores) ==
  [i \in 1..(range.end_date - range.start_date + 1) |->
     LET day == range.start_date + (i - 1) IN
     [date |-> strftime(day),
      working_hours |-> working_hours(c, range, day).value,
      app_usage_hours |-> app_usage_hours(connection, c, range, day),
      productivity_score |-> scores[i]]]

daily_summary(c, start_date_str, end_date_str) ==
  LET op == <<"timelog", "daily_summary">>
      params == [start_date |-> start_date_str, end_date |-> end_date_str]
      perm == LogViewSet_permission_classes(c)
  IN IF perm # "ok" THEN Answer(op, c, params, permission_denied(c), {})
     ELSE IF ~TimeLogViewSet_get_queryset(c).ok THEN Answer(op, c, params, 500, {})
     ELSE LET parsed == query_range(start_date_str, end_date_str, DailySummaryDays) IN
          IF ~parsed.ok THEN Answer(op, c, params, 500, {})
          ELSE LET range == parsed.value
                   days == range.start_date..range.end_date
               IN \E connection \in Connections, scores \in random_scores(Cardinality(days)) :
                  IF days # {} /\ connection.duration_division = "rejected"
                  THEN Answer(op, c, params, 500, {})
                  ELSE IF \E day \in days : ~working_hours(c, range, day).ok
                  THEN Answer(op, c, params, 500, {})
                  ELSE Answer(op, c, params, 200, daily_summary_results(connection, c, range, scores))

(***************************************************************************)
(* AppUsageViewSet.summary                                                 *)
(***************************************************************************)
AppNames == {"Chrome", "Slack"}

\* get_queryset().filter(timestamp__date__range=[start_date, end_date])
summary_queryset(c, range) ==
  {a \in AppUsageViewSet_get_queryset(c).rows :
     date(AppUsage[a].timestamp) \in range.start_date..range.end_date}

\* values('app_name').annotate(total_usage_hours=...): one entry per application
app_summary(connection, rows) ==
  {[app_name |-> n,
    total_usage_hours |->
      total_app_usage_hours(connection, {a \in rows : AppUsage[a].app_name = n})] :
   n \in {AppUsage[a].app_name : a \in rows}}

\* order_by('-total_usage_hours'): the lists that hold every entry once, none before
\* an entry with more hours; the database orders equal entries as it likes
order_by_total_usage_hours(entries) ==
  {s \in [1..Cardinality(entries) -> entries] :
     /\ \A e \in entries : \E i \in DOMAIN s : s[i] = e
     /\ \A i, j \in DOMAIN s : i < j => s[i].total_usage_hours >= s[j].total_usage_hours}

summary(c, start_date_str, end_date_str) ==
  LET op == <<"appusage", "summary">>
      params == [start_date |-> start_date_str, end_date |-> end_date_str]
      perm == LogViewSet_permission_classes(c)
  IN IF perm # "ok" THEN Answer(op, c, params, permission_denied(c), {})
     ELSE IF ~AppUsageViewSet_get_queryset(c).ok THEN Answer(op, c, params, 500, {})
     ELSE LET parsed == query_range(start_date_str, end_date_str, AppSummaryDays) IN
          IF ~parsed.ok THEN Answer(op, c, params, 500, {})
          ELSE \E connection \in Connections :
               \E s \in order_by_total_usage_hours(app_summary(connection, summary_queryset(c, parsed.value))) :
                 Answer(op, c, params, 200, s)

(***************************************************************************)
(* The stores the reports are computed on: the seeded users, team and      *)
(* project, with sample logs and app-usage rows around the ends of the     *)
(* default ranges.                                                         *)
(***************************************************************************)

ReportTimeLogs ==
  {<<[user |-> u, project |-> p, start_time |-> at_nine(Today),
      end_time |-> IF closed1 THEN at_nine(Today) + TenHours ELSE None],
     [user |-> 3 + NumEmployees, project |-> 1, start_time |-> at_nine(day),
      end_time |-> IF closed2 THEN at_nine(day) + HalfHour ELSE None]>> :
   u \in {ProjectManagerId, 3 + NumEmployees}, p \in {None, 1}, closed1 \in BOOLEAN,
   day \in {Today, Today - (DailySummaryDays - 1), Today - DailySummaryDays},
   closed2 \in BOOLEAN}

ReportAppUsages ==
  {<<[user |-> 3 + NumEmployees, app_name |-> "Chrome", duration_seconds |-> d1,
      timestamp |-> at_nine(Today)],
     [user |-> u, app_name |-> n, duration_seconds |-> d2, timestamp |-> at_nine(day)]>> :
   d1 \in {HalfHour, HalfHour + SecondsPerHour}, u \in {TeamHeadId, 3 + NumEmployees},
   n \in AppNames, d2 \in {HalfHour, 2 * SecondsPerHour},
   day \in {Today, Today - (AppSummaryDays - 1), Today - AppSummaryDays}}

ReportInit ==
  /\ User = [u \in SeedUserIds |-> SeedUser(u)]
  /\ Team = [t \in {1} |-> [head |-> TeamHeadId, members |-> SeedUserIds]]
  /\ \E e \in EstimatedHoursInputs :
       Project = [p \in {1} |-> [manager |-> ProjectManagerId, team |-> 1, estimated_hours |-> e]]
  /\ \/ /\ TimeLog \in ReportTimeLogs
        /\ AppUsage = <<[user |-> 3 + NumEmployees, app_name |-> "Chrome",
                         duration_seconds |-> HalfHour, timestamp |-> at_nine(Today)]>>
     \/ /\ TimeLog = <<[user |-> ProjectManagerId, project |-> 1, start_time |-> at_nine(Today),
                        end_time |-> at_nine(Today) + TenHours]>>
        /\ AppUsage \in ReportAppUsages
  /\ ActivityMetric = [m \in SeedLogIds |-> [user |-> m, value |-> 500]]
  /\ response = Idle
  /\ writes = 0

ReportCallers == (DOMAIN User) \cup {AnonymousUser}

ProgressReportRequest ==
  /\ response.op = Idle.op
  /\ \E c \in ReportCallers, pk \in ProjectIds : progress_report(c, pk)

DailySummaryRequest ==
  /\ response.op = Idle.op
  /\ \E c \in ReportCallers, params \in DateInputs : daily_summary(c, params[1], params[2])

\* the client sends its daily_summary request once more before anything else happens
DailySummaryRepeated ==
  /\ response.op = <<"timelog", "daily_summary">>
  /\ daily_summary(response.user, response.pk.start_date, response.pk.end_date)

SummaryRequest ==
  /\ response.op = Idle.op
  /\ \E c \in ReportCallers, params \in DateInputs : summary(c, params[1], params[2])

ReportNext ==
  \/ ProgressReportRequest
  \/ DailySummaryRequest
  \/ DailySummaryRepeated
  \/ SummaryRequest
  \/ ReturnResponse

ReportSpec == ReportInit /\ [][ReportNext]_vars

(***************************************************************************)
(* Concurrent updates of a TimeLog.  An update is two steps of its own     *)
(* request: get_object() reads the row into an instance, then              *)
(* serializer.save() writes the instance back.  Here response holds one    *)
(* entry per request in flight and writes counts the commits.              *)
(***************************************************************************)
\* the requests that may be in flight together
Requests == 1..2

\* the writable fields of TimeLogSerializer that the model carries
WritableFields == {"project", "start_time", "end_time"}

NoRow == [user |-> None, project |-> None, start_time |-> 0, end_time |-> None]
NoBody == [method |-> "", has |-> {}, project |-> None, start_time |-> 0, end_time |-> None]
NoRequest ==
  [pc |-> "idle", user |-> AnonymousUser, pk |-> None, body |-> NoBody, instance |-> NoRow,
   written |-> NoRow, status |-> 0, commit |-> 0]

\* the bodies of the updates: a PATCH that takes the log off its project, a PATCH that
\* moves its end, a PUT of every field
UpdateInputs ==
  {[method |-> "PATCH", has |-> {"project"}, project |-> None, start_time |-> 0, end_time |-> None],
   [method |-> "PATCH", has |-> {"end_time"}, project |-> None, start_time |-> 0,
    end_time |-> at_nine(Today) + HalfHour],
   [method |-> "PUT", has |-> WritableFields, project |-> 1, start_time |-> at_nine(Today),
    end_time |-> at_nine(Today) + TenHours]}

\* ModelSerializer.update: the validated fields are set on the instance
serializer_update(instance, body) ==
  [instance EXCEPT
     !.project = IF "project" \in body.has THEN body.project ELSE @,
     !.start_time = IF "start_time" \in body.has THEN body.start_time ELSE @,
     !.end_time = IF "end_time" \in body.has THEN body.end_time ELSE @]

\* (mutant) a save that writes the validated fields only, onto the row as it is now
save_UpdateFields(instance, body, row) == serializer_update(row, body)

\* instance.save(): every field of the instance is written over the stored row
save(instance, body, row) == serializer_update(instance, body)

\* update / partial_update up to get_object(): permission, queryset, object permission
update_get_object(r, c, pk, body) ==
  /\ response[r].pc = "idle"
  /\ LET st == IF LogViewSet_permission_classes(c) # "ok" THEN permission_denied(c)
               ELSE TimeLogViewSet_get_object(c, pk, body.method)
     IN response' = [response EXCEPT ![r] =
          IF st # 200
          THEN [NoRequest EXCEPT !.pc = "done", !.user = c, !.pk = pk, !.body = body, !.status = st]
          ELSE [NoRequest EXCEPT !.pc = "read", !.user = c, !.pk = pk, !.body = body,
                                 !.instance = TimeLog[pk]]]
  /\ UNCHANGED <<User, Team, Project, TimeLog, AppUsage, ActivityMetric, writes>>

\* the rest of update: is_valid(), perform_update() and the response
update_perform_update(r) ==
  /\ response[r].pc = "read"
  /\ LET pk == response[r].pk IN
     /\ TimeLog' = [TimeLog EXCEPT ![pk] = save(response[r].instance, response[r].body, TimeLog[pk])]
     /\ response' = [response EXCEPT ![r] =
          [@ EXCEPT !.pc = "done", !.status = 200, !.commit = writes + 1,
                    !.written = serializer_update(response[r].instance, response[r].body)]]
  /\ writes' = writes + 1
  /\ UNCHANGED <<User, Team, Project, AppUsage, ActivityMetric>>

ConcurrentInit ==
  /\ User = [u \in SeedUserIds |-> SeedUser(u)]
  /\ Team = [t \in {1} |-> [head |-> TeamHeadId, members |-> SeedUserIds]]
  /\ Project = [p \in 1..NumProjects |->
                  [manager |-> ProjectManagerId, team |-> 1, estimated_hours |-> SeedEstimatedHours]]
  /\ TimeLog = [l \in SeedLogIds |->
                  [user |-> l, project |-> 1, start_time |-> at_nine(Today),
                   end_time |-> at_nine(Today) + TwoHours]]
  /\ AppUsage = [a \in SeedLogIds |-> [user |-> a, duration_seconds |-> HalfHour]]
  /\ ActivityMetric = [m \in SeedLogIds |-> [user |-> m, value |-> 500]]
  /\ response = [r \in Requests |-> NoRequest]
  /\ writes = 0

ConcurrentNext ==
  \E r \in Requests :
    \/ \E c \in (DOMAIN User) \cup {AnonymousUser}, pk \in DOMAIN TimeLog, body \in UpdateInputs :
         update_get_object(r, c, pk, body)
    \/ update_perform_update(r)

ConcurrentSpec == ConcurrentInit /\ [][ConcurrentNext]_vars

(***************************************************************************)
(* The dashboard (frontend/app.py).  A layout function makes two backend   *)
(* calls and then returns; here response holds the layout being built:     *)
(* its position, what the two calls returned and what the layout returned. *)
(* Python values are records [type, error]: error is the value under the   *)
(* key 'error' of a dict, NoText when the dict has no such key.            *)
(***************************************************************************)
\* no text: an absent key, None
NoText == <<>>

PyNone == [type |-> "NoneType", error |-> NoText]
PyList == [type |-> "list", error |-> NoText]
PyDict(error) == [type |-> "dict", error |-> error]

\* the methods fetch_data_from_backend sends
HTTPMethods == {"GET", "POST", "PUT", "PATCH", "DELETE"}

\* what one call of the requests library ends in
Responded(status_code, json) == [raised |-> "", status_code |-> status_code, json |-> json]
Failed(exception) == [raised |-> exception, status_code |-> 0, json |-> PyNone]

\* the answers of the backend to the GET of an endpoint: a list from the summaries,
\* a page or a list (pagination is a setting) from timelogs/, never a 200 from users/
\* (UserSerializer_fields); an error status, no connection or a timeout from each
BackendOutcomes(endpoint) ==
  {Failed("ConnectionError"), Failed("Timeout"),
   Responded(HTTP_401_UNAUTHORIZED, PyDict(NoText)), Responded(500, PyDict(NoText))}
  \cup (CASE endpoint = "timelogs/daily_summary/" -> {Responded(200, PyList)}
          [] endpoint = "appusages/summary/" -> {Responded(200, PyList)}
          [] endpoint = "timelogs/" -> {Responded(200, PyDict(NoText)), Responded(200, PyList)}
          [] OTHER -> {})

fetch_data_from_backend(endpoint, method, outcome) ==
  IF method \notin HTTPMethods THEN Raise("ValueError")
  ELSE IF outcome.raised = "ConnectionError" THEN Value(PyDict(<<"Connection Error">>))
  ELSE IF outcome.raised = "Timeout" THEN Value(PyDict(<<"Timeout Error">>))
  ELSE IF outcome.status_code >= 400 THEN Value(PyDict(<<"HTTP Error", outcome.status_code>>))
  ELSE Value(outcome.json)

\* "error" in data: a key of a dict; an element of a list, whose elements are dicts
error_in(data) == data.type = "dict" /\ data.error # NoText

\* data.get('error'): None (here NoText) when the key is absent; a list has no get
get_error(data) == IF data.type = "dict" THEN Value(data.error) ELSE Raise("AttributeError")

\* first.get('error') or second.get('error'), evaluated left to right
error_message(first, second) ==
  LET left == get_error(first)
  IN IF ~left.ok THEN left
     ELSE IF left.value # NoText THEN left
     ELSE get_error(second)

\* the layout after its two calls: the error check and the inline message; past the
\* check the page is taken to render
layout_return(first, second) ==
  IF error_in(first) \/ error_in(second)
  THEN LET message == error_message(first, second)
       IN IF message.ok THEN Value([type |-> "Div", error |-> message.value]) ELSE message
  ELSE Value([type |-> "Div", error |-> NoText])

\* the layouts that call the backend
Layouts == {"employee_dashboard_layout", "admin_panel_layout"}
Views == {"dashboard", "notifications", "admin_panel"}

\* render_page_content: the layout of a role and a view, for a logged-in user
render_page_content(user_role, view) ==
  IF view = "notifications" THEN "notifications_panel_layout"
  ELSE IF view = "admin_panel" /\ user_role = "admin" THEN "admin_panel_layout"
  ELSE IF user_role = "employee" THEN "employee_dashboard_layout"
  ELSE IF user_role = "team_head" THEN "team_head_dashboard_layout"
  ELSE IF user_role = "project_manager" THEN "project_manager_dashboard_layout"
  ELSE "employee_dashboard_layout"
Endpoints(layout) ==
  IF layout = "employee_dashboard_layout"
  THEN <<"timelogs/daily_summary/", "appusages/summary/">>
  ELSE <<"users/", "timelogs/">>

NoLayout ==
  [pc |-> "idle", layout |-> "", role |-> "", view |-> "", first |-> Value(PyNone), second |-> Value(PyNone),
   result |-> Value(PyNone)]

\* the first backend call of the layout of a role and a view; a layout that calls
\* no backend returns its page at once
layout_first_call(user_role, view) ==
  /\ response.pc = "idle"
  /\ LET layout == render_page_content(user_role, view)
         began == [NoLayout EXCEPT !.layout = layout, !.role = user_role, !.view = view]
     IN IF layout \notin Layouts
        THEN response' = [began EXCEPT !.pc = "done",
                            !.result = Value([type |-> "Div", error |-> NoText])]
        ELSE \E outcome \in BackendOutcomes(Endpoints(layout)[1]) :
               response' = [began EXCEPT !.pc = "first",
                              !.first = fetch_data_from_backend(Endpoints(layout)[1], "GET", outcome)]
  /\ UNCHANGED <<User, Team, Project, TimeLog, AppUsage, ActivityMetric, writes>>

\* the second backend call; an exception of the first call has left the layout
layout_second_call ==
  /\ response.pc = "first"
  /\ IF ~response.first.ok
     THEN response' = [response EXCEPT !.pc = "done", !.result = response.first]
     ELSE \E outcome \in BackendOutcomes(Endpoints(response.layout)[2]) :
            response' = [response EXCEPT !.pc = "second",
                           !.second = fetch_data_from_backend(Endpoints(response.layout)[2], "GET", outcome)]
  /\ UNCHANGED <<User, Team, Project, TimeLog, AppUsage, ActivityMetric, writes>>

\* the error check and the return of the layout
layout_returns ==
  /\ response.pc = "second"
  /\ response' = [response EXCEPT !.pc = "done",
                    !.result = IF ~response.second.ok THEN response.second
                               ELSE layout_return(response.first.value, response.second.value)]
  /\ UNCHANGED <<User, Team, Project, TimeLog, AppUsage, ActivityMetric, writes>>

FrontendInit ==
  /\ User = [u \in SeedUserIds |-> SeedUser(u)]
  /\ Team = [t \in {1} |-> [head |-> TeamHeadId, members |-> SeedUserIds]]
  /\ Project = [p \in 1..NumProjects |->
                  [manager |-> ProjectManagerId, team |-> 1, estimated_hours |-> SeedEstimatedHours]]
  /\ TimeLog = [l \in SeedLogIds |->
                  [user |-> l, project |-> 1, start_time |-> at_nine(Today),
                   end_time |-> at_nine(Today) + TwoHours]]
  /\ AppUsage = [a \in SeedLogIds |-> [user |-> a, duration_seconds |-> HalfHour]]
  /\ ActivityMetric = [m \in SeedLogIds |-> [user |-> m, value |-> 500]]
  /\ response = NoLayout
  /\ writes = 0

FrontendNext ==
  \/ \E user_role \in Roles, view \in Views : layout_first_call(user_role, view)
  \/ layout_second_call
  \/ layout_returns

FrontendSpec == FrontendInit /\ [][FrontendNext]_vars

(***************************************************************************)
(* Properties.                                                             *)
(***************************************************************************)
Handled == response # Idle
IsOp(view, action) == response.op = <<view, action>>
LogViews == {"timelog", "appusage", "activitymetric"}
SuperUsers == {u \in DOMAIN User : User[u].is_superuser}

\* C1: every user has exactly one effective role, resolved by precedence: admin when
\* the superuser flag is set, else team_head when in TeamHeads, else project_manager
\* when in ProjectManagers, else employee; membership of several groups still gives
\* one role.
C1_RoleByPrecedence ==
  \A u \in DOMAIN User :
    /\ role(u) \in Roles
    /\ User[u].is_superuser => role(u) = "admin"
    /\ (~User[u].is_superuser /\ "TeamHeads" \in User[u].groups) => role(u) = "team_head"
    /\ (~User[u].is_superuser /\ "TeamHeads" \notin User[u].groups
          /\ "ProjectManagers" \in User[u].groups) => role(u) = "project_manager"
    /\ (~User[u].is_superuser /\ "TeamHeads" \notin User[u].groups
          /\ "ProjectManagers" \notin User[u].groups) => role(u) = "employee"

C1_Witness ==
  \E u \in DOMAIN User :
    /\ ~User[u].is_superuser
    /\ {"TeamHeads", "ProjectManagers"} \subseteq User[u].groups
    /\ role(u) = "team_head"

\* the TimeLogs the access policy grants a caller, by effective role
TimeLogsGranted(c) ==
  IF role(c) = "admin" THEN DOMAIN TimeLog
  ELSE IF role(c) = "team_head" THEN
    {l \in DOMAIN TimeLog : \E t \in DOMAIN Team : Team[t].head = c /\ TimeLog[l].user \in Team[t].members}
  ELSE IF role(c) = "project_manager" THEN
    {l \in DOMAIN TimeLog : TimeLog[l].project # None /\ Project[TimeLog[l].project].manager = c}
  ELSE {l \in DOMAIN TimeLog : TimeLog[l].user = c}

\* C2: for every caller and store state, the TimeLogs the caller can list, and those
\* the caller can retrieve by id, are exactly the ones granted to the caller's role
\* (all, the logs of members of teams the caller heads, the logs of projects the
\* caller manages, the caller's own); an employee never reads another user's log.
C2_TimeLogVisibility ==
  /\ \A c \in DOMAIN User :
       /\ TimeLogViewSet_get_queryset(c).ok
       /\ TimeLogViewSet_get_queryset(c).rows = TimeLogsGranted(c)
       /\ {l \in LogIds : TimeLogViewSet_get_object(c, l, "GET") = 200} = TimeLogsGranted(c)
  /\ (IsOp("timelog", "list") /\ is_authenticated(response.user)) =>
       (response.status = 200 /\ response.data = TimeLogsGranted(response.user))
  /\ (IsOp("timelog", "retrieve") /\ is_authenticated(response.user)) =>
       /\ response.status = 200 <=> response.pk \in TimeLogsGranted(response.user)
       /\ response.data = {response.pk} \cap TimeLogsGranted(response.user)
       /\ (role(response.user) = "employee" /\ response.status = 200) =>
            TimeLog[response.pk].user = response.user

C2_Witness ==
  /\ IsOp("timelog", "retrieve")
  /\ is_authenticated(response.user)
  /\ role(response.user) = "employee"
  /\ response.pk \in DOMAIN TimeLog
  /\ TimeLog[response.pk].user # response.user
  /\ response.status = 404
  /\ response.data = {}

\* the owner of row pk of a log-type table, and whether the caller can retrieve it
LogOwner(view, pk) ==
  IF view = "timelog" THEN TimeLog[pk].user
  ELSE IF view = "appusage" THEN AppUsage[pk].user
  ELSE ActivityMetric[pk].user
LogTable(view) ==
  IF view = "timelog" THEN DOMAIN TimeLog
  ELSE IF view = "appusage" THEN DOMAIN AppUsage
  ELSE DOMAIN ActivityMetric
LogReadable(view, c, pk) ==
  IF view = "timelog" THEN TimeLogViewSet_get_object(c, pk, "GET") = 200
  ELSE IF view = "appusage" THEN AppUsageViewSet_get_object(c, pk, "GET") = 200
  ELSE ActivityMetricViewSet_get_object(c, pk, "GET") = 200

\* C3: an update or delete of a TimeLog, AppUsage or ActivityMetric row takes effect
\* only when the caller owns the row or is an admin; a team_head or project_manager
\* who can read another user's row gets 403 on writing it and the row stays as it was.
C3_LogWriteOwnerOrAdmin ==
  [][ (response = Idle /\ response'.op[1] \in LogViews
         /\ response'.op[2] \in {"update", "partial_update", "destroy"}
         /\ is_authenticated(response'.user)) =>
      LET v == response'.op[1]
          c == response'.user
          pk == response'.pk
      IN /\ <<TimeLog, AppUsage, ActivityMetric>>' # <<TimeLog, AppUsage, ActivityMetric>> =>
              /\ response'.status \in {200, 204}
              /\ pk \in LogTable(v)
              /\ LogOwner(v, pk) = c \/ User[c].is_superuser
         /\ response'.status \in {200, 204} =>
              /\ pk \in LogTable(v)
              /\ LogOwner(v, pk) = c \/ User[c].is_superuser
         /\ (pk \in LogTable(v) /\ LogOwner(v, pk) # c /\ role(c) \in {"team_head", "project_manager"}
               /\ LogReadable(v, c, pk)) =>
              /\ response'.status = 403
              /\ UNCHANGED <<TimeLog, AppUsage, ActivityMetric>>
    ]_vars

C3_Witness ==
  /\ response.op[1] \in LogViews
  /\ response.op[2] \in {"update", "partial_update", "destroy"}
  /\ is_authenticated(response.user)
  /\ role(response.user) \in {"team_head", "project_manager"}
  /\ response.pk \in LogTable(response.op[1])
  /\ LogOwner(response.op[1], response.pk) # response.user
  /\ LogReadable(response.op[1], response.user, response.pk)
  /\ response.status = 403

\* C4: create, update, partial update and delete of a Team or a Project succeed only
\* for admin callers; for every other authenticated caller the request ends 403 and
\* the Team and Project collections stay as they were.
C4_TeamProjectWritesAdminOnly ==
  [][ (response = Idle /\ response'.op[1] \in {"team", "project"}
         /\ response'.op[2] \in WriteActions
         /\ is_authenticated(response'.user)) =>
      /\ response'.status \in {200, 201, 204} => role(response'.user) = "admin"
      /\ role(response'.user) # "admin" =>
           /\ response'.status = 403
           /\ UNCHANGED <<Team, Project>>
    ]_vars

\* C5: for a caller whose role is team_head, listing Teams succeeds and returns the
\* teams the caller heads together with the teams the caller is a member of.
C5_TeamHeadListsTeams ==
  (IsOp("team", "list") /\ is_authenticated(response.user) /\ role(response.user) = "team_head") =>
    /\ response.status = 200
    /\ response.data = {t \in DOMAIN Team : Team[t].head = response.user \/ response.user \in Team[t].members}

\* the Projects the access policy grants a caller, by effective role
ProjectsGranted(c) ==
  IF role(c) = "admin" THEN DOMAIN Project
  ELSE IF role(c) = "team_head" THEN
    {p \in DOMAIN Project : Project[p].team # None /\ Team[Project[p].team].head = c}
  ELSE IF role(c) = "project_manager" THEN
    {p \in DOMAIN Project : Project[p].manager = c}
  ELSE {p \in DOMAIN Project : \E l \in DOMAIN TimeLog : TimeLog[l].project = p /\ TimeLog[l].user = c}

\* C6: the Projects listed for a caller are those of the caller's effective role as
\* User.role computes it: the managed projects for a project_manager, the projects
\* of the teams the caller heads for a team_head, a caller in both groups included.
C6_ProjectsByEffectiveRole ==
  (IsOp("project", "list") /\ is_authenticated(response.user)
     /\ role(response.user) \in {"team_head", "project_manager"}) =>
    /\ response.status = 200
    /\ response.data = ProjectsGranted(response.user)

\* C7: for a caller whose role is project_manager, listing AppUsage rows and listing
\* ActivityMetric rows succeed (possibly with an empty list) and never end in a
\* server error.
C7_ManagerListsUsageAndMetrics ==
  (response.op \in {<<"appusage", "list">>, <<"activitymetric", "list">>}
     /\ is_authenticated(response.user) /\ role(response.user) = "project_manager") =>
    /\ response.status # 500
    /\ response.status = 200

\* whether what queryset a shows is within what queryset b shows, both being built
Within(a, b) == a.ok /\ b.ok /\ a.rows \subseteq b.rows

\* C8: for each of Team, Project, TimeLog, AppUsage and ActivityMetric, what an
\* employee who is a member of a team sees is within what the team_head heading that
\* team sees, which is within what an admin sees.
C8_VisibilityChain ==
  \A t \in DOMAIN Team : \A e \in Team[t].members : \A a \in SuperUsers :
    LET h == Team[t].head IN
    (h # None /\ role(e) = "employee" /\ role(h) = "team_head") =>
      /\ Within(TeamViewSet_get_queryset(e), TeamViewSet_get_queryset(h))
      /\ Within(TeamViewSet_get_queryset(h), TeamViewSet_get_queryset(a))
      /\ Within(ProjectViewSet_get_queryset(e), ProjectViewSet_get_queryset(h))
      /\ Within(ProjectViewSet_get_queryset(h), ProjectViewSet_get_queryset(a))
      /\ Within(TimeLogViewSet_get_queryset(e), TimeLogViewSet_get_queryset(h))
      /\ Within(TimeLogViewSet_get_queryset(h), TimeLogViewSet_get_queryset(a))
      /\ Within(AppUsageViewSet_get_queryset(e), AppUsageViewSet_get_queryset(h))
      /\ Within(AppUsageViewSet_get_queryset(h), AppUsageViewSet_get_queryset(a))
      /\ Within(ActivityMetricViewSet_get_queryset(e), ActivityMetricViewSet_get_queryset(h))
      /\ Within(ActivityMetricViewSet_get_queryset(h), ActivityMetricViewSet_get_queryset(a))

\* C9: listing or retrieving users gives an admin every user and any other
\* authenticated caller exactly the caller's own record, whatever the caller's role.
C9_UserVisibility ==
  /\ \A c \in DOMAIN User :
       LET granted == IF role(c) = "admin" THEN DOMAIN User ELSE {c} IN
       /\ UserViewSet_get_queryset(c).ok
       /\ UserViewSet_get_queryset(c).rows = granted
       /\ {u \in UserIds : get_object(UserViewSet_get_queryset(c), u, TRUE) = 200} = granted
  /\ (IsOp("user", "list") /\ is_authenticated(response.user)) =>
       /\ response.status = 200
       /\ response.data = IF role(response.user) = "admin" THEN DOMAIN User ELSE {response.user}
  /\ (IsOp("user", "retrieve") /\ is_authenticated(response.user)) =>
       /\ response.status = 200 <=>
            (response.pk \in DOMAIN User /\ (role(response.user) = "admin" \/ response.pk = response.user))
       /\ response.data = IF response.status = 200 THEN {response.pk} ELSE {}

\* C10: a request without a valid identity to any endpoint of the user, team,
\* project, time-log, app-usage and activity-metric viewsets is rejected with 401,
\* returns no entity data and leaves the store unchanged.
C10_Unauthenticated ==
  [][ (response = Idle /\ response' # Idle /\ response'.op[1] # "auth"
         /\ ~is_authenticated(response'.user)) =>
      /\ response'.status = HTTP_401_UNAUTHORIZED
      /\ response'.data = {}
      /\ UNCHANGED store
    ]_vars

C10_Witness ==
  /\ Handled
  /\ response.user = AnonymousUser
  /\ response.op[2] \in WriteActions \cup {"list", "set_role", "daily_summary"}
  /\ response.status = HTTP_401_UNAUTHORIZED

\* C11: progress_report gives progress_percentage 0 for every project whose
\* estimated_hours is 0 or negative, whatever time logs the project has, and the
\* request never ends in a server error (no division by zero).
C11_NoEstimateNoProgress ==
  (/\ IsOp("project", "progress_report")
   /\ response.pk \in DOMAIN Project
   /\ Project[response.pk].estimated_hours <= 0) =>
    /\ response.status # 500
    /\ response.status = 200 => response.data.progress_percentage = 0

C11_Witness ==
  /\ IsOp("project", "progress_report")
  /\ response.status = 200
  /\ Project[response.pk].estimated_hours <= 0
  /\ \E l \in DOMAIN TimeLog :
       /\ TimeLog[l].project = response.pk
       /\ TimeLog[l].end_time # None
       /\ TimeLog[l].end_time > TimeLog[l].start_time
  /\ response.data.progress_percentage = 0

\* the seconds between start and end of the closed logs of a project
ClosedSeconds(pk) ==
  SumOf([l \in {k \in DOMAIN TimeLog : TimeLog[k].project = pk /\ TimeLog[k].end_time # None}
           |-> TimeLog[l].end_time - TimeLog[l].start_time])

\* C12: for a project with estimated_hours > 0, total_time_spent_hours is the sum of
\* end_time - start_time over the project's closed logs only (open logs add nothing,
\* no closed log gives 0) and progress_percentage is these hours / estimated_hours *
\* 100, both to two decimals; 10 logged hours against an estimate of 40 give 25.0.
C12_ProgressFromClosedLogs ==
  (/\ IsOp("project", "progress_report")
   /\ response.status = 200
   /\ Project[response.pk].estimated_hours > 0) =>
    LET seconds == ClosedSeconds(response.pk)
        estimated_hours == Project[response.pk].estimated_hours
    IN /\ response.data.total_time_spent_hours = RoundHalfEven(100 * seconds, SecondsPerHour)
       /\ response.data.progress_percentage =
            RoundHalfEven(100 * 100 * seconds, SecondsPerHour * estimated_hours)
       /\ (seconds = 0) => response.data.total_time_spent_hours = 0
       /\ (seconds = 10 * SecondsPerHour /\ estimated_hours = 40) =>
            response.data.progress_percentage = 2500

C12_Witness ==
  /\ IsOp("project", "progress_report")
  /\ response.status = 200
  /\ Project[response.pk].estimated_hours = 40
  /\ \E l \in DOMAIN TimeLog : TimeLog[l].project = response.pk /\ TimeLog[l].end_time = None
  /\ \E l \in DOMAIN TimeLog : TimeLog[l].project = response.pk /\ TimeLog[l].end_time # None
  /\ response.data.total_time_spent_hours = 1000
  /\ response.data.progress_percentage = 2500

\* C13: an authenticated user who is the manager of a project can retrieve the
\* project and its progress report (status 200), also with no time log on the project
\* and with no group but the Employees group every new user is given.
C13_ManagerReadsOwnProject ==
  (/\ Handled
   /\ response.op \in {<<"project", "retrieve">>, <<"project", "progress_report">>}
   /\ is_authenticated(response.user)
   /\ response.pk \in DOMAIN Project
   /\ Project[response.pk].manager = response.user) =>
    response.status = 200

\* the request answered last is a report over dates, sent by a signed-in caller
DatedReport(view, action) == IsOp(view, action) /\ is_authenticated(response.user)
\* the range the parameters of the answered request stand for
AskedRange(default_days) ==
  query_range(response.pk.start_date, response.pk.end_date, default_days)
\* the days of a range, first to last
Days(range) == range.start_date..range.end_date
\* the logs of user u that start on a day
LogsOn(u, day) ==
  {l \in DOMAIN TimeLog : TimeLog[l].user = u /\ date(TimeLog[l].start_time) = day}
\* the seconds of the closed logs among rows
ClosedSecondsOf(rows) ==
  SumOf([l \in {k \in rows : TimeLog[k].end_time # None}
           |-> TimeLog[l].end_time - TimeLog[l].start_time])

\* C14: daily_summary returns exactly one record per calendar day of the inclusive
\* range, in ascending date order, none missing or repeated, also for days without
\* rows; with no range given it returns the 7 records of the 7 days ending today.
C14_OneRecordPerDay ==
  (DatedReport("timelog", "daily_summary") /\ AskedRange(DailySummaryDays).ok) =>
    LET range == AskedRange(DailySummaryDays).value IN
    /\ response.status = 200
    /\ Len(response.data) = Cardinality(Days(range))
    /\ \A i \in 1..Len(response.data) :
         response.data[i].date = Calendar[range.start_date + (i - 1)]
    /\ (response.pk.start_date = NoParam /\ response.pk.end_date = NoParam) =>
         /\ Len(response.data) = 7
         /\ response.data[7].date = Calendar[Today]

\* C15: a log without end_time adds 0 to daily_summary; a day on which the caller has
\* only open logs is reported with working_hours 0.0 and the request succeeds.
C15_OpenLogsCountZero ==
  (/\ DatedReport("timelog", "daily_summary")
   /\ AskedRange(DailySummaryDays).ok
   /\ \E day \in Days(AskedRange(DailySummaryDays).value) :
        /\ LogsOn(response.user, day) # {}
        /\ \A l \in LogsOn(response.user, day) : TimeLog[l].end_time = None) =>
    /\ response.status = 200
    /\ \A i \in 1..Len(response.data) :
         response.data[i].working_hours =
           RoundHalfEven(100 * ClosedSecondsOf(LogsOn(response.user,
                           AskedRange(DailySummaryDays).value.start_date + (i - 1))),
                         SecondsPerHour)

\* C16: for every caller of daily_summary, whatever the role, each day's working_hours
\* is the total duration of the caller's own closed logs that start on that day, with
\* or without a project; the logs of other users add nothing.
C16_OwnClosedLogsPerDay ==
  (DatedReport("timelog", "daily_summary") /\ AskedRange(DailySummaryDays).ok) =>
    LET range == AskedRange(DailySummaryDays).value IN
    /\ \A day \in Days(range) : daily_hours(response.user, range, day) = LogsOn(response.user, day)
    /\ response.status = 200
    /\ \A i \in 1..Len(response.data) :
         response.data[i].working_hours =
           RoundHalfEven(100 * ClosedSecondsOf(LogsOn(response.user, range.start_date + (i - 1))),
                         SecondsPerHour)

\* the recorded seconds of the app-usage rows, as hours in hundredths
UsageHours(rows) ==
  RoundHalfEven(100 * SumOf([a \in rows |-> AppUsage[a].duration_seconds]), SecondsPerHour)

\* C17: reported app-usage hours are sum(duration_seconds) / 3600 as a fractional
\* number, in daily_summary (app_usage_hours) and in the app-usage summary
\* (total_usage_hours): 1800 seconds are reported as 0.5 hours, not as 0.
C17_FractionalAppUsageHours ==
  /\ (DatedReport("timelog", "daily_summary") /\ response.status = 200) =>
       \A i \in 1..Len(response.data) :
         response.data[i].app_usage_hours =
           UsageHours({a \in DOMAIN AppUsage :
                         /\ AppUsage[a].user = response.user
                         /\ Calendar[date(AppUsage[a].timestamp)] = response.data[i].date})
  /\ (DatedReport("appusage", "summary") /\ response.status = 200) =>
       \A i \in 1..Len(response.data) :
         response.data[i].total_usage_hours =
           UsageHours({a \in summary_queryset(response.user, AskedRange(AppSummaryDays).value) :
                         AppUsage[a].app_name = response.data[i].app_name})

\* the app-usage rows the access policy shows a caller who is no project manager:
\* all of them to an admin, those of the members of the teams a team head heads, a
\* caller's own otherwise
AppUsageGranted(c) ==
  IF role(c) = "admin" THEN DOMAIN AppUsage
  ELSE IF role(c) = "team_head"
  THEN {a \in DOMAIN AppUsage :
          \E t \in DOMAIN Team : Team[t].head = c /\ AppUsage[a].user \in Team[t].members}
  ELSE {a \in DOMAIN AppUsage : AppUsage[a].user = c}

\* C18: the app-usage summary aggregates exactly the rows the access policy shows the
\* caller whose timestamp date lies in the inclusive range (by default the 30 days
\* ending today), gives one entry per distinct application name among them, and
\* lists the entries in non-increasing order of total usage.
C18_SummaryOfVisibleRows ==
  (DatedReport("appusage", "summary") /\ AskedRange(AppSummaryDays).ok) =>
    LET range == AskedRange(AppSummaryDays).value
        rows == {a \in AppUsageGranted(response.user) : date(AppUsage[a].timestamp) \in Days(range)}
    IN /\ response.status = 200
       /\ role(response.user) # "project_manager" =>
            /\ {response.data[i].app_name : i \in 1..Len(response.data)}
                 = {AppUsage[a].app_name : a \in rows}
            /\ Len(response.data) = Cardinality({AppUsage[a].app_name : a \in rows})
            /\ \A i \in 1..Len(response.data) :
                 LET of_app == {a \in rows : AppUsage[a].app_name = response.data[i].app_name}
                 IN response.data[i].total_usage_hours \in
                      {UsageHours(of_app),
                       100 * (Sum_duration_seconds(of_app) \div SecondsPerHour)}
       /\ \A i, j \in 1..Len(response.data) :
            i < j => response.data[i].total_usage_hours >= response.data[j].total_usage_hours

\* C19: a daily_summary or app-usage summary request whose start_date or end_date is
\* no valid YYYY-MM-DD date ends in a validation error (a 4xx status), never in a
\* server error.
C19_InvalidDateRejected ==
  (/\ DatedReport("timelog", "daily_summary") \/ DatedReport("appusage", "summary")
   /\ \E s \in {response.pk.start_date, response.pk.end_date} :
        s # NoParam /\ ~strptime(s).ok) =>
    /\ response.status # 500
    /\ response.status \in 400..499

\* C20: daily_summary is deterministic: the same caller asking again with the same
\* parameters on the same store gets the same result, productivity_score included.
C20_DailySummaryDeterministic ==
  [][ (/\ IsOp("timelog", "daily_summary")
       /\ response'.op = response.op
       /\ response'.user = response.user
       /\ response'.pk = response.pk
       /\ UNCHANGED store
       /\ response.status = 200
       /\ response'.status = 200) =>
      \A i \in 1..Len(response.data) :
        response'.data[i].productivity_score = response.data[i].productivity_score
    ]_vars

C22_LoginRoleIsUserRole ==
  (IsOp("auth", "post") /\ response.status = 200) => response.data = {role(response.pk)}

C22_Witness ==
  /\ IsOp("auth", "post")
  /\ response.status = 200
  /\ {"TeamHeads", "ProjectManagers"} \subseteq User[response.pk].groups
  /\ response.data = {"team_head"}

\* every reference of the store names a row that exists, or nothing
ReferencesResolve ==
  /\ \A l \in DOMAIN TimeLog :
       TimeLog[l].user \in DOMAIN User /\ TimeLog[l].project \in (DOMAIN Project) \cup {None}
  /\ \A a \in DOMAIN AppUsage : AppUsage[a].user \in DOMAIN User
  /\ \A m \in DOMAIN ActivityMetric : ActivityMetric[m].user \in DOMAIN User
  /\ \A t \in DOMAIN Team :
       Team[t].head \in (DOMAIN User) \cup {None} /\ Team[t].members \subseteq DOMAIN User
  /\ \A p \in DOMAIN Project :
       /\ Project[p].manager \in (DOMAIN User) \cup {None}
       /\ Project[p].team \in (DOMAIN Team) \cup {None}

\* C23: referential integrity holds in every reachable state: every TimeLog, AppUsage
\* and ActivityMetric has an owner that exists (deleting a user deletes the user's
\* rows); deleting a Team or a Project deletes no dependent row and sets the
\* references to it to null; deleting a user who heads a team or manages a project
\* sets Team.head / Project.manager to null.
C23_ReferentialIntegrity ==
  [][ /\ ReferencesResolve /\ ReferencesResolve'
      /\ (response'.op = <<"user", "destroy">> /\ response'.status = 204) =>
           /\ DOMAIN Team' = DOMAIN Team /\ DOMAIN Project' = DOMAIN Project
           /\ \A t \in DOMAIN Team :
                Team'[t].head = IF Team[t].head = response'.pk THEN None ELSE Team[t].head
           /\ \A p \in DOMAIN Project :
                Project'[p].manager =
                  IF Project[p].manager = response'.pk THEN None ELSE Project[p].manager
           /\ DOMAIN TimeLog' = {l \in DOMAIN TimeLog : TimeLog[l].user # response'.pk}
           /\ DOMAIN AppUsage' = {a \in DOMAIN AppUsage : AppUsage[a].user # response'.pk}
           /\ DOMAIN ActivityMetric' =
                {m \in DOMAIN ActivityMetric : ActivityMetric[m].user # response'.pk}
      /\ (response'.op = <<"team", "destroy">> /\ response'.status = 204) =>
           /\ DOMAIN Project' = DOMAIN Project
           /\ \A p \in DOMAIN Project :
                Project'[p].team = IF Project[p].team = response'.pk THEN None ELSE Project[p].team
           /\ UNCHANGED <<User, TimeLog, AppUsage, ActivityMetric>>
      /\ (response'.op = <<"project", "destroy">> /\ response'.status = 204) =>
           /\ DOMAIN TimeLog' = DOMAIN TimeLog
           /\ \A l \in DOMAIN TimeLog :
                TimeLog'[l].project =
                  IF TimeLog[l].project = response'.pk THEN None ELSE TimeLog[l].project
           /\ UNCHANGED <<User, Team, AppUsage, ActivityMetric>>
    ]_vars

C23_Witness ==
  /\ IsOp("user", "destroy")
  /\ response.status = 204
  /\ response.pk \notin DOMAIN User
  /\ \E t \in DOMAIN Team : Team[t].head = None
  /\ DOMAIN TimeLog # {}
  /\ \A l \in DOMAIN TimeLog : TimeLog[l].user # response.pk

\* C24: in every state reachable through API writes every Project has
\* estimated_hours >= 0 and every AppUsage has duration_seconds >= 0: a create or
\* update that carries a negative value is rejected and the store is unchanged.
C24_NoNegativeValues ==
  /\ \A p \in DOMAIN Project : Project[p].estimated_hours >= 0
  /\ \A a \in DOMAIN AppUsage : AppUsage[a].duration_seconds >= 0

\* the request that committed last among those that have committed
LastCommitted(r) ==
  response[r].commit > 0 /\ \A q \in Requests : response[q].commit <= response[r].commit

\* C25: when two authorized updates of the same TimeLog run concurrently (each reads
\* the row, then writes it), both succeed and the stored row is exactly the row
\* written by the update that commits last; no update is rejected as stale and no
\* interleaving ends a request in an error.
C25_LastWriteWins ==
  /\ \A r \in Requests :
       response[r].pc = "done" =>
         /\ response[r].status \in {200, HTTP_401_UNAUTHORIZED, 403, 404}
         /\ response[r].commit > 0 <=> response[r].status = 200
  /\ \A r \in Requests :
       (LastCommitted(r) /\ \A q \in Requests : response[q].pc = "read" => response[q].pk # response[r].pk) =>
         TimeLog[response[r].pk] = response[r].written

\* both updates read the row before either wrote it, and the first writer's change
\* is gone from the stored row
C25_Witness ==
  /\ \A r \in Requests : response[r].pc = "done" /\ response[r].status = 200
  /\ response[1].pk = response[2].pk
  /\ response[1].user # response[2].user
  /\ response[1].commit < response[2].commit
  /\ response[1].instance = response[2].instance
  /\ response[1].body.has = {"project"} /\ response[2].body.has = {"end_time"}
  /\ TimeLog[response[2].pk] = response[2].written
  /\ TimeLog[response[2].pk].project # response[1].written.project

\* C26: for every combination of success and failure of the two backend calls of a
\* layout, fetch_data_from_backend returns a value instead of raising, and when a
\* call failed the layout returns the inline error message; it never raises.
C26_LayoutNeverRaises ==
  /\ response.first.ok /\ response.second.ok
  /\ response.pc = "done" =>
       /\ response.result.ok
       /\ (error_in(response.first.value) \/ error_in(response.second.value)) =>
             response.result.value.error # NoText

\* C27: no request of a caller who is not an admin changes the effective role, the
\* superuser and staff flags or the group memberships of any user, the caller's own
\* included.
C27_NoPrivilegeEscalation ==
  [][ (response'.op # Idle.op /\ ~(response'.user \in DOMAIN User /\ role(response'.user) = "admin")) =>
        \A u \in DOMAIN User \cap DOMAIN User' : User'[u] = User[u] ]_vars

\* the owners of the rows that are in the table before and after a step are the same
OwnersKept(table, table_after) ==
  \A k \in DOMAIN table \cap DOMAIN table_after : table_after[k].user = table[k].user

\* the rows a step has added to the table belong to the caller of the request
CreatedOwnedBy(table, table_after, caller) ==
  \A k \in DOMAIN table_after \ DOMAIN table : table_after[k].user = caller

\* C28: the owner of a TimeLog, AppUsage or ActivityMetric row is the caller who
\* created it, whatever user the request body carried, and no update by any caller
\* (owner or admin) changes a row's owner.
C28_OwnerIsCreator ==
  [][ /\ OwnersKept(TimeLog, TimeLog') /\ OwnersKept(AppUsage, AppUsage')
      /\ OwnersKept(ActivityMetric, ActivityMetric')
      /\ CreatedOwnedBy(TimeLog, TimeLog', response'.user)
      /\ CreatedOwnedBy(AppUsage, AppUsage', response'.user)
      /\ CreatedOwnedBy(ActivityMetric, ActivityMetric', response'.user) ]_vars

\* an employee has created a time log and owns it
C28_Witness ==
  /\ IsOp("timelog", "create") /\ response.status = 201
  /\ response.user \in DOMAIN User /\ role(response.user) = "employee"
  /\ response.pk \in DOMAIN TimeLog /\ TimeLog[response.pk].user = response.user

\* C29: in every reachable state the head of a Team has effective role team_head or
\* admin.
C29_HeadsAreTeamHeads ==
  \A t \in DOMAIN Team :
    Team[t].head # None => role(Team[t].head) \in {"team_head", "admin"}

\* C30: every closed TimeLog in the store has start_time < end_time.
C30_ClosedLogsRunForward ==
  \A l \in DOMAIN TimeLog :
    TimeLog[l].end_time # None => TimeLog[l].start_time < TimeLog[l].end_time

Spec == Init /\ [][Next]_vars
====
